---- MODULE Spec2Model ----
(***************************************************************************)
(* Snowflake zero-copy cloning framework and RBAC manager.                 *)
(*                                                                         *)
(* The model follows src/snowflake_clone_framework.py and                  *)
(* src/rbac_manager.py.  Every cursor.execute call is an interaction with  *)
(* the warehouse that either returns or raises; which of the two happens   *)
(* is chosen freely for every single call.  Python strings are TLA+        *)
(* strings, Python dicts are functions on their key set, Python lists are  *)
(* sequences.                                                              *)
(***************************************************************************)
EXTENDS Integers, Sequences, FiniteSets, TLC

VARIABLES
    pc,                 \* which entry point runs and where it stands
    operation_config,   \* argument of bulk_clone_operation
    results,            \* the results dict bulk_clone_operation builds
    pos,                \* <<group, index>> of the request the bulk loops reach next
    issued,             \* every instruction handed to cursor.execute, in order
    config,             \* the framework's loaded configuration (self.config)
    call,               \* the last direct call of a function and what it returned
    rbac_config,        \* RBACManager.rbac_config, config.get('rbac', {})
    rbac_args,          \* arguments of the running RBACManager call
    setup_result,       \* the setup_result dict complete_rbac_setup builds
    privileges_result   \* what a direct apply_role_privileges call returned

vars == <<pc, operation_config, results, pos, issued, config, call,
          rbac_config, rbac_args, setup_result, privileges_result>>

-----------------------------------------------------------------------------
(* Bounds of the model *)

\* Largest number of requests in one operation set (all three lists together).
MaxOps == 3

\* Largest number of direct clone_* calls made in one behaviour.
MaxCalls == 2

\* Largest number of configured roles (service and system-full together).
MaxRoles == 2

\* Largest number of object patterns in one list handed to
\* _substitute_variables, and of pieces one pattern is put together from.
MaxPatterns == 2

MaxParts == 2

\* Largest number of roles SHOW ROLES lists to an audit.
MaxAuditRoles == 5

\* Largest number of rows SHOW CLONES answers a validation with.
MaxLineage == 2

-----------------------------------------------------------------------------
(* Python values *)

\* Python's None.
None == "<None>"

\* str(x) as an f-string field formats it: None prints as the text None.
Fmt(x) == IF x = None THEN "None" ELSE x

\* {}.
EmptyDict == <<>>

\* d.get(k, default)
Get(d, k, default) == IF k \in DOMAIN d THEN d[k] ELSE default

\* d[k] = v
DictSet(d, k, v) == [x \in DOMAIN d \cup {k} |-> IF x = k THEN v ELSE d[x]]

\* bool(x) of a string or None.
Truthy(x) == x # None /\ x # ""

\* str.upper() on the clone types and privilege names the callers pass.
Upper(s) == IF s = "at_time" THEN "AT_TIME"
            ELSE IF s = "zero_copy" THEN "ZERO_COPY"
            ELSE IF s = "all" THEN "ALL" ELSE s

\* str.replace(old, new): every non-overlapping occurrence of old, scanning
\* from the left, is replaced by new.
RECURSIVE Replace(_, _, _)
Replace(s, old, new) ==
    IF Len(s) < Len(old) THEN s
    ELSE IF SubSeq(s, 1, Len(old)) = old
         THEN new \o Replace(SubSeq(s, Len(old) + 1, Len(s)), old, new)
         ELSE SubSeq(s, 1, 1) \o Replace(SubSeq(s, 2, Len(s)), old, new)

\* All sequences over S of length at most n.
SeqUpTo(S, n) == UNION {[1..k -> S] : k \in 0..n}

-----------------------------------------------------------------------------
(* The statement executor *)

\* cursor.execute(sql): the call is appended to the log of the running
\* operation; oks[k] tells whether the k-th call of that operation returns
\* (TRUE) or raises (FALSE).
execute(log, sql, oks) == Append(log, [sql |-> sql, ok |-> oks[Len(log) + 1]])

\* The last execute raised.
Raised(log) == ~log[Len(log)].ok

-----------------------------------------------------------------------------
(* Clone engine *)

\* clone_database: one CREATE DATABASE ... CLONE statement inside try/except.
clone_database(cfg, source_db, target_db, clone_type, oks) ==
    LET clone_sql == "CREATE DATABASE " \o Fmt(target_db) \o " CLONE " \o Fmt(source_db)
        at_time   == Get(Get(cfg, "cloning", EmptyDict), "at_time", None)
        sql       == IF Upper(clone_type) = "AT_TIME" /\ Truthy(at_time)
                     THEN clone_sql \o " AT (TIMESTAMP => '" \o at_time \o "')"
                     ELSE clone_sql
        l1        == execute(<<>>, sql, oks)
    IN  IF Raised(l1)
        THEN [ret |-> FALSE, raised |-> FALSE, log |-> l1]
        ELSE [ret |-> TRUE, raised |-> FALSE, log |-> l1]

\* A clone_schema whose try block starts after the container creation, so a
\* failing CREATE DATABASE IF NOT EXISTS escapes the function.
clone_schema_unguarded(source_db, source_schema, target_db, target_schema, oks) ==
    LET ts == IF target_schema = None THEN source_schema ELSE target_schema
        l1 == execute(<<>>, "CREATE DATABASE IF NOT EXISTS " \o Fmt(target_db), oks)
        l2 == execute(l1, "CREATE SCHEMA " \o Fmt(target_db) \o "." \o Fmt(ts)
                          \o " CLONE " \o Fmt(source_db) \o "." \o Fmt(source_schema), oks)
    IN  IF Raised(l1) THEN [ret |-> FALSE, raised |-> TRUE, log |-> l1]
        ELSE IF Raised(l2) THEN [ret |-> FALSE, raised |-> FALSE, log |-> l2]
        ELSE [ret |-> TRUE, raised |-> FALSE, log |-> l2]

\* A clone_schema that undoes the container creation when the clone is
\* refused.
clone_schema_rollback(source_db, source_schema, target_db, target_schema, oks) ==
    LET ts == IF target_schema = None THEN source_schema ELSE target_schema
        l1 == execute(<<>>, "CREATE DATABASE IF NOT EXISTS " \o Fmt(target_db), oks)
        l2 == execute(l1, "CREATE SCHEMA " \o Fmt(target_db) \o "." \o Fmt(ts)
                          \o " CLONE " \o Fmt(source_db) \o "." \o Fmt(source_schema), oks)
        l3 == Append(l2, [sql |-> "DROP DATABASE IF EXISTS " \o Fmt(target_db), ok |-> TRUE])
    IN  IF Raised(l1) THEN [ret |-> FALSE, raised |-> FALSE, log |-> l1]
        ELSE IF Raised(l2) THEN [ret |-> FALSE, raised |-> FALSE, log |-> l3]
        ELSE [ret |-> TRUE, raised |-> FALSE, log |-> l2]

\* clone_schema: target_schema defaults to source_schema; inside one
\* try/except, create the target database if absent, then clone the schema.
clone_schema(source_db, source_schema, target_db, target_schema, oks) ==
    LET ts == IF target_schema = None THEN source_schema ELSE target_schema
        l1 == execute(<<>>, "CREATE DATABASE IF NOT EXISTS " \o Fmt(target_db), oks)
        l2 == execute(l1, "CREATE SCHEMA " \o Fmt(target_db) \o "." \o Fmt(ts)
                          \o " CLONE " \o Fmt(source_db) \o "." \o Fmt(source_schema), oks)
    IN  IF Raised(l1) THEN [ret |-> FALSE, raised |-> FALSE, log |-> l1]
        ELSE IF Raised(l2) THEN [ret |-> FALSE, raised |-> FALSE, log |-> l2]
        ELSE [ret |-> TRUE, raised |-> FALSE, log |-> l2]

\* A clone_table that creates the target schema before the target database.
clone_table_schema_first(source_db, source_schema, source_table, target_db, target_schema, target_table, oks) ==
    LET ts == IF target_schema = None THEN source_schema ELSE target_schema
        tt == IF target_table = None THEN source_table ELSE target_table
        l1 == execute(<<>>, "CREATE SCHEMA IF NOT EXISTS " \o Fmt(target_db) \o "." \o Fmt(ts), oks)
        l2 == execute(l1, "CREATE DATABASE IF NOT EXISTS " \o Fmt(target_db), oks)
        l3 == execute(l2, "CREATE TABLE " \o Fmt(target_db) \o "." \o Fmt(ts) \o "." \o Fmt(tt)
                          \o " CLONE " \o Fmt(source_db) \o "." \o Fmt(source_schema)
                          \o "." \o Fmt(source_table), oks)
    IN  IF Raised(l1) THEN [ret |-> FALSE, raised |-> FALSE, log |-> l1]
        ELSE IF Raised(l2) THEN [ret |-> FALSE, raised |-> FALSE, log |-> l2]
        ELSE IF Raised(l3) THEN [ret |-> FALSE, raised |-> FALSE, log |-> l3]
        ELSE [ret |-> TRUE, raised |-> FALSE, log |-> l3]

\* A clone_table without the defaults: an omitted target_schema or
\* target_table goes into the statements as it is.
clone_table_no_default(source_db, source_schema, source_table, target_db, target_schema, target_table, oks) ==
    LET l1 == execute(<<>>, "CREATE DATABASE IF NOT EXISTS " \o Fmt(target_db), oks)
        l2 == execute(l1, "CREATE SCHEMA IF NOT EXISTS " \o Fmt(target_db) \o "."
                          \o Fmt(target_schema), oks)
        l3 == execute(l2, "CREATE TABLE " \o Fmt(target_db) \o "." \o Fmt(target_schema)
                          \o "." \o Fmt(target_table)
                          \o " CLONE " \o Fmt(source_db) \o "." \o Fmt(source_schema)
                          \o "." \o Fmt(source_table), oks)
    IN  IF Raised(l1) THEN [ret |-> FALSE, raised |-> FALSE, log |-> l1]
        ELSE IF Raised(l2) THEN [ret |-> FALSE, raised |-> FALSE, log |-> l2]
        ELSE IF Raised(l3) THEN [ret |-> FALSE, raised |-> FALSE, log |-> l3]
        ELSE [ret |-> TRUE, raised |-> FALSE, log |-> l3]

\* A clone_table with a try/except of its own around every statement: it
\* goes on to the next statement after a refused one.
clone_table_continue(source_db, source_schema, source_table, target_db, target_schema, target_table, oks) ==
    LET ts == IF target_schema = None THEN source_schema ELSE target_schema
        tt == IF target_table = None THEN source_table ELSE target_table
        l1 == execute(<<>>, "CREATE DATABASE IF NOT EXISTS " \o Fmt(target_db), oks)
        l2 == execute(l1, "CREATE SCHEMA IF NOT EXISTS " \o Fmt(target_db) \o "." \o Fmt(ts), oks)
        l3 == execute(l2, "CREATE TABLE " \o Fmt(target_db) \o "." \o Fmt(ts) \o "." \o Fmt(tt)
                          \o " CLONE " \o Fmt(source_db) \o "." \o Fmt(source_schema)
                          \o "." \o Fmt(source_table), oks)
    IN  [ret |-> \A k \in 1..Len(l3) : l3[k].ok, raised |-> FALSE, log |-> l3]

\* clone_table: target_schema and target_table default to the source names;
\* inside one try/except, create the target database and schema if absent,
\* then clone the table.
clone_table(source_db, source_schema, source_table, target_db, target_schema, target_table, oks) ==
    LET ts == IF target_schema = None THEN source_schema ELSE target_schema
        tt == IF target_table = None THEN source_table ELSE target_table
        l1 == execute(<<>>, "CREATE DATABASE IF NOT EXISTS " \o Fmt(target_db), oks)
        l2 == execute(l1, "CREATE SCHEMA IF NOT EXISTS " \o Fmt(target_db) \o "." \o Fmt(ts), oks)
        l3 == execute(l2, "CREATE TABLE " \o Fmt(target_db) \o "." \o Fmt(ts) \o "." \o Fmt(tt)
                          \o " CLONE " \o Fmt(source_db) \o "." \o Fmt(source_schema)
                          \o "." \o Fmt(source_table), oks)
    IN  IF Raised(l1) THEN [ret |-> FALSE, raised |-> FALSE, log |-> l1]
        ELSE IF Raised(l2) THEN [ret |-> FALSE, raised |-> FALSE, log |-> l2]
        ELSE IF Raised(l3) THEN [ret |-> FALSE, raised |-> FALSE, log |-> l3]
        ELSE [ret |-> TRUE, raised |-> FALSE, log |-> l3]

-----------------------------------------------------------------------------
(* Bulk orchestrator: inputs *)

Groups == {"databases", "schemas", "tables"}

\* Entries of operation_config['databases']; the last one lacks 'target'.
DbConfigs ==
    { [source |-> "PROD", target |-> "DEV"],
      [source |-> "PROD", target |-> "TEST"],
      [source |-> "PROD"] }

\* Entries of operation_config['schemas']: target_schema absent, null, given.
SchemaConfigs ==
    { [source_db |-> "PROD", source_schema |-> "S", target_db |-> "DEV"],
      [source_db |-> "PROD", source_schema |-> "S", target_db |-> "DEV",
       target_schema |-> None],
      [source_db |-> "PROD", source_schema |-> "S", target_db |-> "DEV",
       target_schema |-> "S2"] }

\* Entries of operation_config['tables']; the last one lacks 'source_table'.
TableConfigs ==
    { [source_db |-> "PROD", source_schema |-> "S", source_table |-> "T",
       target_db |-> "DEV"],
      [source_db |-> "PROD", source_schema |-> "S", source_table |-> "T",
       target_db |-> "DEV", target_schema |-> None, target_table |-> None],
      [source_db |-> "PROD", source_schema |-> "S", source_table |-> "T",
       target_db |-> "DEV", target_schema |-> "S2", target_table |-> "T2"],
      [source_db |-> "PROD", source_schema |-> "S", target_db |-> "DEV"] }

\* The framework configurations: without and with cloning.at_time.
Configs ==
    { EmptyDict, [cloning |-> [at_time |-> "2024-01-01 00:00:00"]] }

\* operation_config restricted to the keys K (a key may be absent instead of
\* holding an empty list).
OpConfig(d, s, t, K) ==
    [g \in K |-> IF g = "databases" THEN d ELSE IF g = "schemas" THEN s ELSE t]

\* The list a loop of bulk_clone_operation runs over: nothing when the key
\* is absent ("if 'databases' in operation_config").
ListOf(cfg, g) == IF g \in DOMAIN cfg THEN cfg[g] ELSE <<>>

\* N: the number of requests of an operation set.
NumRequests(cfg) ==
    Len(ListOf(cfg, "databases")) + Len(ListOf(cfg, "schemas")) + Len(ListOf(cfg, "tables"))

-----------------------------------------------------------------------------
(* Bulk orchestrator: control flow *)

\* The three loops in the order a fail-prone refactoring could give them.
GroupOrderSchemasFirst == <<"schemas", "databases", "tables">>

\* The order of the three loops of bulk_clone_operation.
GroupOrder == <<"databases", "schemas", "tables">>

GroupIndex(g) == CHOOSE k \in 1..Len(GroupOrder) : GroupOrder[k] = g

\* The first request at or after index i of the k-th loop, <<"end", 0>> when
\* every loop is exhausted.
RECURSIVE Seek(_, _, _)
Seek(cfg, k, i) ==
    IF k > Len(GroupOrder) THEN <<"end", 0>>
    ELSE IF i <= Len(ListOf(cfg, GroupOrder[k])) THEN <<GroupOrder[k], i>>
    ELSE Seek(cfg, k + 1, 1)

\* A fail-fast loop: the first failed request ends the run.
AfterRequestFailFast(cfg, g, i, success) ==
    IF success THEN Seek(cfg, GroupIndex(g), i + 1) ELSE <<"end", 0>>

\* Where the loops stand after request i of group g returned success: the
\* for statements go on to the next entry whatever the outcome was.
AfterRequest(cfg, g, i, success) == Seek(cfg, GroupIndex(g), i + 1)

-----------------------------------------------------------------------------
(* Bulk orchestrator: the report *)

\* The results dict as created at the top of bulk_clone_operation
\* (operation_id and the time stamps are left out).
InitialResults ==
    [ databases |-> EmptyDict, schemas |-> EmptyDict, tables |-> EmptyDict,
      summary |-> [ total_operations |-> 0, successful_operations |-> 0,
                    failed_operations |-> 0 ] ]

\* A summary update that counts successes only.
CountOutcomeSuccessOnly(summary, success) ==
    [summary EXCEPT !.total_operations = @ + 1,
                    !.successful_operations = IF success THEN @ + 1 ELSE @]

\* The summary update after one request.
CountOutcome(summary, success) ==
    [summary EXCEPT !.total_operations = @ + 1,
                    !.successful_operations = IF success THEN @ + 1 ELSE @,
                    !.failed_operations = IF success THEN @ ELSE @ + 1]

\* A report that keeps the first outcome recorded under a key.
RecordOutcomeKeepFirst(res, group, key, source, success) ==
    [res EXCEPT ![group] = IF key \in DOMAIN @ THEN @
                           ELSE DictSet(@, key, [source |-> source, success |-> success]),
                !.summary = CountOutcome(@, success)]

\* results[group][key] = {...}; then the summary counters.
RecordOutcome(res, group, key, source, success) ==
    [res EXCEPT ![group] = DictSet(@, key, [source |-> source, success |-> success]),
                !.summary = CountOutcome(@, success)]

\* The instructions of one operation, marked with the request they belong to.
Tagged(log, req) ==
    [k \in 1..Len(log) |-> [sql |-> log[k].sql, ok |-> log[k].ok, req |-> req]]

\* The record of a direct call before any call was made.
NoCall == [n |-> 0, fn |-> "none", args |-> <<>>, ret |-> FALSE, raised |-> FALSE,
           log |-> <<>>]

-----------------------------------------------------------------------------
(* Initial state: the framework is constructed, nothing has been called. *)

\* Nothing has been called yet.
Idle ==
    /\ pc = "idle"
    /\ operation_config = EmptyDict
    /\ results = EmptyDict
    /\ pos = <<"none", 0>>
    /\ issued = <<>>
    /\ call = NoCall
    /\ rbac_args = EmptyDict
    /\ setup_result = EmptyDict
    /\ privileges_result = EmptyDict

\* SnowflakeCloneFramework(config_path): the configuration is loaded.
Init ==
    /\ Idle
    /\ config \in Configs
    /\ rbac_config = EmptyDict

-----------------------------------------------------------------------------
(* Bulk orchestrator: actions *)

\* bulk_clone_operation is called: the results dict is created and the
\* loops stand before the first request.
BulkStart ==
    /\ pc = "idle"
    /\ \E d \in SeqUpTo(DbConfigs, MaxOps) :
       \E s \in SeqUpTo(SchemaConfigs, MaxOps - Len(d)) :
       \E t \in SeqUpTo(TableConfigs, MaxOps - Len(d) - Len(s)) :
       \E K \in SUBSET Groups :
          /\ ("databases" \notin K) => d = <<>>
          /\ ("schemas" \notin K) => s = <<>>
          /\ ("tables" \notin K) => t = <<>>
          /\ operation_config' = OpConfig(d, s, t, K)
          /\ pos' = Seek(OpConfig(d, s, t, K), 1, 1)
    /\ results' = InitialResults
    /\ pc' = "bulk"
    /\ UNCHANGED <<issued, config, call, rbac_config, rbac_args, setup_result, privileges_result>>

\* One pass of the loop over operation_config['databases'].
BulkCloneDatabase ==
    /\ pc = "bulk"
    /\ pos[1] = "databases"
    /\ LET db_config == operation_config["databases"][pos[2]] IN
       IF ~({"source", "target"} \subseteq DOMAIN db_config)
       THEN \* KeyError, and bulk_clone_operation has no try block
            /\ pc' = "bulk_raised"
            /\ UNCHANGED <<results, pos, issued>>
       ELSE \E oks \in [1..1 -> BOOLEAN] :
            LET source_db == db_config["source"]
                target_db == db_config["target"]
                r == clone_database(config, source_db, target_db, "ZERO_COPY", oks)
            IN  /\ issued' = issued \o Tagged(r.log, pos)
                /\ results' = RecordOutcome(results, "databases", target_db, source_db, r.ret)
                /\ pos' = AfterRequest(operation_config, pos[1], pos[2], r.ret)
                /\ pc' = "bulk"
    /\ UNCHANGED <<operation_config, config, call, rbac_config, rbac_args, setup_result, privileges_result>>

\* One pass of the loop over operation_config['schemas'].
BulkCloneSchema ==
    /\ pc = "bulk"
    /\ pos[1] = "schemas"
    /\ LET schema_config == operation_config["schemas"][pos[2]] IN
       IF ~({"source_db", "source_schema", "target_db"} \subseteq DOMAIN schema_config)
       THEN /\ pc' = "bulk_raised"
            /\ UNCHANGED <<results, pos, issued>>
       ELSE \E oks \in [1..2 -> BOOLEAN] :
            LET r == clone_schema(schema_config["source_db"], schema_config["source_schema"],
                                  schema_config["target_db"],
                                  Get(schema_config, "target_schema", None), oks)
                key == Fmt(schema_config["target_db"]) \o "."
                       \o Fmt(Get(schema_config, "target_schema", schema_config["source_schema"]))
                source == Fmt(schema_config["source_db"]) \o "."
                          \o Fmt(schema_config["source_schema"])
            IN  /\ issued' = issued \o Tagged(r.log, pos)
                /\ results' = RecordOutcome(results, "schemas", key, source, r.ret)
                /\ pos' = AfterRequest(operation_config, pos[1], pos[2], r.ret)
                /\ pc' = "bulk"
    /\ UNCHANGED <<operation_config, config, call, rbac_config, rbac_args, setup_result, privileges_result>>

\* One pass of the loop over operation_config['tables'].
BulkCloneTable ==
    /\ pc = "bulk"
    /\ pos[1] = "tables"
    /\ LET table_config == operation_config["tables"][pos[2]] IN
       IF ~({"source_db", "source_schema", "source_table", "target_db"}
                \subseteq DOMAIN table_config)
       THEN /\ pc' = "bulk_raised"
            /\ UNCHANGED <<results, pos, issued>>
       ELSE \E oks \in [1..3 -> BOOLEAN] :
            LET r == clone_table(table_config["source_db"], table_config["source_schema"],
                                 table_config["source_table"], table_config["target_db"],
                                 Get(table_config, "target_schema", None),
                                 Get(table_config, "target_table", None), oks)
                target_schema == Get(table_config, "target_schema", table_config["source_schema"])
                target_table == Get(table_config, "target_table", table_config["source_table"])
                key == Fmt(table_config["target_db"]) \o "." \o Fmt(target_schema)
                       \o "." \o Fmt(target_table)
                source == Fmt(table_config["source_db"]) \o "."
                          \o Fmt(table_config["source_schema"]) \o "."
                          \o Fmt(table_config["source_table"])
            IN  /\ issued' = issued \o Tagged(r.log, pos)
                /\ results' = RecordOutcome(results, "tables", key, source, r.ret)
                /\ pos' = AfterRequest(operation_config, pos[1], pos[2], r.ret)
                /\ pc' = "bulk"
    /\ UNCHANGED <<operation_config, config, call, rbac_config, rbac_args, setup_result, privileges_result>>

\* The loops are exhausted: end_time is set and the report is returned.
BulkReturn ==
    /\ pc = "bulk"
    /\ pos[1] = "end"
    /\ results' = [k \in DOMAIN results \cup {"end_time"} |->
                      IF k = "end_time" THEN "set" ELSE results[k]]
    /\ pc' = "bulk_returned"
    /\ UNCHANGED <<operation_config, pos, issued, config, call, rbac_config, rbac_args, setup_result, privileges_result>>

NextBulk ==
    \/ BulkStart
    \/ BulkCloneDatabase
    \/ BulkCloneSchema
    \/ BulkCloneTable
    \/ BulkReturn

SpecBulk == Init /\ [][NextBulk]_vars

-----------------------------------------------------------------------------
(* Clone engine: direct calls *)

\* What a direct call leaves behind: its arguments, its return value, whether
\* an exception left the function, and the instructions it issued.
AfterCall(fn, args, r) ==
    /\ call' = [n |-> call.n + 1, fn |-> fn, args |-> args, ret |-> r.ret,
                raised |-> r.raised, log |-> r.log]
    /\ issued' = issued \o Tagged(r.log, <<"direct", call.n + 1>>)
    /\ pc' = "direct"
    /\ UNCHANGED <<operation_config, results, pos, config, rbac_config, rbac_args, setup_result, privileges_result>>

CallCloneDatabase ==
    /\ pc \in {"idle", "direct"}
    /\ call.n < MaxCalls
    /\ \E target_db \in {"DEV", "TEST"}, clone_type \in {"ZERO_COPY", "AT_TIME", "at_time"},
          oks \in [1..1 -> BOOLEAN] :
          AfterCall("clone_database", <<"PROD", target_db, clone_type>>,
                    clone_database(config, "PROD", target_db, clone_type, oks))

CallCloneSchema ==
    /\ pc \in {"idle", "direct"}
    /\ call.n < MaxCalls
    /\ \E target_db \in {"DEV", "TEST"}, target_schema \in {None, "S2"},
          oks \in [1..2 -> BOOLEAN] :
          AfterCall("clone_schema", <<"PROD", "S", target_db, target_schema>>,
                    clone_schema("PROD", "S", target_db, target_schema, oks))

\* clone_table is called; a target segment may be omitted, given, or given
\* malformed (with a path separator in it, or empty).
CallCloneTable ==
    /\ pc \in {"idle", "direct"}
    /\ call.n < MaxCalls
    /\ \E target_db \in {"DEV", "TEST"}, target_schema \in {None, "S2", "A.B"},
          target_table \in {None, "T2", ""}, oks \in [1..3 -> BOOLEAN] :
          AfterCall("clone_table", <<"PROD", "S", "T", target_db, target_schema, target_table>>,
                    clone_table("PROD", "S", "T", target_db, target_schema, target_table, oks))

NextClone ==
    \/ CallCloneDatabase
    \/ CallCloneSchema
    \/ CallCloneTable

SpecClone == Init /\ [][NextClone]_vars

-----------------------------------------------------------------------------
(* RBAC manager: inputs *)

\* The placeholder _substitute_variables replaces.
Placeholder == "${TARGET_DATABASE}"

\* Role declarations.  RoleReader has one database grant; RoleWriter has a
\* schema entry with two object patterns and a warehouse entry, and no
\* description; RoleSummary is a role called summary without privileges.
RoleReader ==
    [ name |-> "SR_READ", description |-> "read only",
      privileges |->
        [ databases |-> << [privilege |-> "USAGE", objects |-> <<"${TARGET_DATABASE}">>] >> ] ]

RoleWriter ==
    [ name |-> "SR_RW",
      privileges |->
        [ schemas |-> << [privilege |-> "all",
                          objects |-> <<"${TARGET_DATABASE}.PUBLIC",
                                        "${TARGET_DATABASE}.STAGE">>] >>,
          warehouses |-> << [privilege |-> "USAGE", objects |-> <<"WH_${TARGET_DATABASE}">>] >> ] ]

RoleSummary == [ name |-> "summary", description |-> "" ]

\* RoleAdmin has one database grant.
RoleAdmin ==
    [ name |-> "SFULL_ADMIN", description |-> "administration",
      privileges |->
        [ databases |-> << [privilege |-> "ALL", objects |-> <<"${TARGET_DATABASE}">>] >> ] ]

\* The order in which the keys of a role's privileges dict are written in
\* the configuration (a dict keeps the order of the file; the functions
\* above do not): RoleWriter declares its warehouses before its schemas, the
\* other roles have at most the one key databases.
DeclaredOrder(role_config) ==
    IF role_config = RoleWriter THEN <<"warehouses", "schemas">>
    ELSE IF "privileges" \in DOMAIN role_config THEN <<"databases">>
    ELSE <<>>

\* A malformed role declaration: the required key name is missing.
RoleNameless == [ description |-> "no name" ]

\* The role declarations apply_role_privileges is called with directly.
RoleSpecs == {RoleReader, RoleWriter, RoleSummary}

\* The role declarations complete_rbac_setup runs with.
SetupRoleSpecs == {RoleReader, RoleAdmin, RoleSummary, RoleNameless}

\* rbac.role_hierarchy: absent, or one parent with one child.
HierarchyConfigs ==
    { <<>>,
      << [parent |-> "SFULL_ADMIN", children |-> <<"SR_READ">>] >> }

\* rbac.user_assignments: absent (EmptyDict stands for the missing key), a
\* section without users, a section with a user holding two roles and a user
\* holding one.
UserAssignmentConfigs ==
    { EmptyDict,
      [example_users |-> <<>>],
      [example_users |-> << [username |-> "ALICE", roles |-> <<"SR_READ", "SR_RW">>],
                            [username |-> "BOB", roles |-> <<"SR_READ">>] >>] }

\* The rbac section built from its four parts; an empty part is a missing key.
RbacConfig(sr, sf, h, ua) ==
    LET K == (IF sr = <<>> THEN {} ELSE {"service_roles"})
             \cup (IF sf = <<>> THEN {} ELSE {"system_full_roles"})
             \cup (IF h = <<>> THEN {} ELSE {"role_hierarchy"})
             \cup (IF ua = EmptyDict THEN {} ELSE {"user_assignments"})
    IN  [k \in K |-> IF k = "service_roles" THEN sr
                     ELSE IF k = "system_full_roles" THEN sf
                     ELSE IF k = "role_hierarchy" THEN h ELSE ua]

\* The values of the role_types argument: omitted, or one of these lists.
RoleTypeArgs == { <<"service_roles">>, <<"system_full_roles">> }

-----------------------------------------------------------------------------
(* RBAC manager: role creation *)

\* _create_role: CREATE ROLE IF NOT EXISTS, with a comment when the
\* description is not empty, inside try/except.
_create_role(role_name, description, log, oks) ==
    LET create_sql == "CREATE ROLE IF NOT EXISTS " \o Fmt(role_name)
        sql == IF Truthy(description)
               THEN create_sql \o " COMMENT = '" \o description \o "'"
               ELSE create_sql
        l1 == execute(log, sql, oks)
    IN  [ret |-> ~Raised(l1), log |-> l1]

\* The loop of create_service_roles / create_system_full_roles from entry k
\* on; a role_config without 'name' raises KeyError out of the function.
RECURSIVE CreateRoles(_, _, _, _, _)
CreateRoles(roles, k, res, log, oks) ==
    IF k > Len(roles) THEN [results |-> res, log |-> log, raised |-> FALSE]
    ELSE IF "name" \notin DOMAIN roles[k]
    THEN [results |-> res, log |-> log, raised |-> TRUE]
    ELSE LET r == _create_role(roles[k]["name"], Get(roles[k], "description", ""), log, oks)
         IN  CreateRoles(roles, k + 1, DictSet(res, roles[k]["name"], r.ret), r.log, oks)

create_service_roles(rbac, oks) ==
    CreateRoles(Get(rbac, "service_roles", <<>>), 1, EmptyDict, <<>>, oks)

create_system_full_roles(rbac, oks) ==
    CreateRoles(Get(rbac, "system_full_roles", <<>>), 1, EmptyDict, <<>>, oks)

-----------------------------------------------------------------------------
(* RBAC manager: privileges *)

\* A substitution that stops after the first pattern of the list.
_substitute_variables_first_only(objects, target_database) ==
    [k \in 1..Len(objects) |->
        IF k = 1 THEN Replace(objects[k], Placeholder, target_database) ELSE objects[k]]

\* _substitute_variables: the placeholder is replaced in every pattern.
_substitute_variables(objects, target_database) ==
    [k \in 1..Len(objects) |-> Replace(objects[k], Placeholder, target_database)]

\* The loop of _grant_privilege from object k on: the first refused grant
\* leaves the loop through the except clause.
RECURSIVE GrantLoop(_, _, _, _, _, _, _)
GrantLoop(privilege, object_type, objects, role, k, log, oks) ==
    IF k > Len(objects) THEN [ret |-> TRUE, log |-> log]
    ELSE LET grant_sql ==
                 IF Upper(privilege) = "ALL"
                 THEN "GRANT ALL PRIVILEGES ON " \o object_type \o " " \o Fmt(objects[k])
                      \o " TO ROLE " \o Fmt(role)
                 ELSE "GRANT " \o privilege \o " ON " \o object_type \o " " \o Fmt(objects[k])
                      \o " TO ROLE " \o Fmt(role)
             l1 == execute(log, grant_sql, oks)
         IN  IF Raised(l1) THEN [ret |-> FALSE, log |-> l1]
             ELSE GrantLoop(privilege, object_type, objects, role, k + 1, l1, oks)

\* _grant_privilege: one GRANT per object, all inside one try/except.
_grant_privilege(privilege, object_type, objects, role, log, oks) ==
    GrantLoop(privilege, object_type, objects, role, 1, log, oks)

\* The blocks with the warehouse block moved to the front.
PrivilegeBlocksWarehousesFirst ==
    << [key |-> "warehouses", object_type |-> "WAREHOUSE", type |-> "warehouse",
        substitute |-> FALSE],
       [key |-> "databases", object_type |-> "DATABASE", type |-> "database", substitute |-> TRUE],
       [key |-> "schemas", object_type |-> "SCHEMA", type |-> "schema", substitute |-> TRUE],
       [key |-> "tables", object_type |-> "TABLE", type |-> "table", substitute |-> TRUE],
       [key |-> "views", object_type |-> "VIEW", type |-> "view", substitute |-> TRUE] >>

\* The blocks with the warehouse patterns substituted like the others.
PrivilegeBlocksSubstituteAll ==
    << [key |-> "databases", object_type |-> "DATABASE", type |-> "database", substitute |-> TRUE],
       [key |-> "schemas", object_type |-> "SCHEMA", type |-> "schema", substitute |-> TRUE],
       [key |-> "tables", object_type |-> "TABLE", type |-> "table", substitute |-> TRUE],
       [key |-> "views", object_type |-> "VIEW", type |-> "view", substitute |-> TRUE],
       [key |-> "warehouses", object_type |-> "WAREHOUSE", type |-> "warehouse",
        substitute |-> TRUE] >>

\* The five blocks of _apply_role_privileges in the order of the code: the
\* key of the privileges dict, the object type of the GRANT, the type noted
\* in the result, and whether the objects go through _substitute_variables.
PrivilegeBlocks ==
    << [key |-> "databases", object_type |-> "DATABASE", type |-> "database", substitute |-> TRUE],
       [key |-> "schemas", object_type |-> "SCHEMA", type |-> "schema", substitute |-> TRUE],
       [key |-> "tables", object_type |-> "TABLE", type |-> "table", substitute |-> TRUE],
       [key |-> "views", object_type |-> "VIEW", type |-> "view", substitute |-> TRUE],
       [key |-> "warehouses", object_type |-> "WAREHOUSE", type |-> "warehouse",
        substitute |-> FALSE] >>

\* The result dict _apply_role_privileges starts from.
InitialRoleResult(role_name) ==
    [ role |-> role_name, success |-> TRUE, applied_privileges |-> <<>>,
      failed_privileges |-> <<>>, error_messages |-> <<>> ]

\* _apply_role_privileges from entry k of block b on.  A privilege entry
\* without 'privilege' or 'objects' raises KeyError into the except clause
\* of the function, which ends it with success False.
RECURSIVE ApplyBlocks(_, _, _, _, _, _, _, _)
ApplyBlocks(role_name, privileges, target_database, b, k, result, log, oks) ==
    IF b > Len(PrivilegeBlocks) THEN [result |-> result, log |-> log]
    ELSE LET block == PrivilegeBlocks[b]
             entries == Get(privileges, block.key, <<>>)
         IN  IF k > Len(entries)
             THEN ApplyBlocks(role_name, privileges, target_database, b + 1, 1, result, log, oks)
             ELSE IF ~({"privilege", "objects"} \subseteq DOMAIN entries[k])
             THEN [result |-> [result EXCEPT !.success = FALSE,
                                             !.error_messages = Append(@, "KeyError")],
                   log |-> log]
             ELSE LET e == entries[k]
                      objects == IF block.substitute
                                 THEN _substitute_variables(e["objects"], target_database)
                                 ELSE e["objects"]
                      g == _grant_privilege(e["privilege"], block.object_type, objects,
                                            role_name, log, oks)
                      privilege_info == [type |-> block.type, privilege |-> e["privilege"],
                                         objects |-> e["objects"]]
                      result2 == IF g.ret
                                 THEN [result EXCEPT !.applied_privileges = Append(@, privilege_info)]
                                 ELSE [result EXCEPT !.failed_privileges = Append(@, privilege_info),
                                                     !.success = FALSE]
                  IN  ApplyBlocks(role_name, privileges, target_database, b, k + 1,
                                  result2, g.log, oks)

\* _apply_role_privileges: the grants of one role.
_apply_role_privileges(role_name, privileges, target_database, log, oks) ==
    ApplyBlocks(role_name, privileges, target_database, 1, 1,
                InitialRoleResult(role_name), log, oks)

\* The summary update of apply_role_privileges after one role.
CountRole(summary, success) ==
    [summary EXCEPT !.total_roles = @ + 1,
                    !.successful_roles = IF success THEN @ + 1 ELSE @,
                    !.failed_roles = IF success THEN @ ELSE @ + 1]

\* The loops of apply_role_privileges from role k of role type t on.
RECURSIVE ApplyRoles(_, _, _, _, _, _, _, _)
ApplyRoles(rbac, role_types, t, k, target_database, res, log, oks) ==
    IF t > Len(role_types) THEN [results |-> res, log |-> log, raised |-> FALSE]
    ELSE LET roles_config == Get(rbac, role_types[t], <<>>) IN
         IF k > Len(roles_config)
         THEN ApplyRoles(rbac, role_types, t + 1, 1, target_database, res, log, oks)
         ELSE IF "name" \notin DOMAIN roles_config[k]
         THEN [results |-> res, log |-> log, raised |-> TRUE]
         ELSE LET role_name == roles_config[k]["name"]
                  r == _apply_role_privileges(role_name,
                                              Get(roles_config[k], "privileges", EmptyDict),
                                              target_database, log, oks)
                  res2 == [res EXCEPT !.roles = DictSet(@, role_name, r.result),
                                      !.summary = CountRole(@, r.result.success)]
              IN  ApplyRoles(rbac, role_types, t, k + 1, target_database, res2, r.log, oks)

\* An apply_role_privileges that takes no notice of role_types.
apply_role_privileges_all_types(rbac, target_database, args, oks) ==
    LET res == [ target_database |-> target_database, roles |-> EmptyDict,
                 summary |-> [total_roles |-> 0, successful_roles |-> 0, failed_roles |-> 0] ]
    IN  ApplyRoles(rbac, <<"service_roles", "system_full_roles">>, 1, 1, target_database,
                   res, <<>>, oks)

\* apply_role_privileges; args holds role_types unless it was omitted (None).
apply_role_privileges(rbac, target_database, args, oks) ==
    LET role_types == Get(args, "role_types", <<"service_roles", "system_full_roles">>)
        res == [ target_database |-> target_database, roles |-> EmptyDict,
                 summary |-> [total_roles |-> 0, successful_roles |-> 0, failed_roles |-> 0] ]
    IN  ApplyRoles(rbac, role_types, 1, 1, target_database, res, <<>>, oks)

-----------------------------------------------------------------------------
(* RBAC manager: hierarchy and users *)

\* setup_role_hierarchy from child c of entry h on: every GRANT ROLE has
\* its own try/except; an entry without 'parent' or 'children' raises.
RECURSIVE HierarchyLoop(_, _, _, _, _, _)
HierarchyLoop(role_hierarchy, h, c, res, log, oks) ==
    IF h > Len(role_hierarchy) THEN [results |-> res, log |-> log, raised |-> FALSE]
    ELSE IF ~({"parent", "children"} \subseteq DOMAIN role_hierarchy[h])
    THEN [results |-> res, log |-> log, raised |-> TRUE]
    ELSE LET parent_role == role_hierarchy[h]["parent"]
             child_roles == role_hierarchy[h]["children"]
         IN  IF c > Len(child_roles)
             THEN HierarchyLoop(role_hierarchy, h + 1, 1, res, log, oks)
             ELSE LET l1 == execute(log, "GRANT ROLE " \o Fmt(child_roles[c]) \o " TO ROLE "
                                         \o Fmt(parent_role), oks)
                      key == Fmt(parent_role) \o " -> " \o Fmt(child_roles[c])
                  IN  HierarchyLoop(role_hierarchy, h, c + 1,
                                    DictSet(res, key, ~Raised(l1)), l1, oks)

setup_role_hierarchy(rbac, oks) ==
    HierarchyLoop(Get(rbac, "role_hierarchy", <<>>), 1, 1, EmptyDict, <<>>, oks)

\* An inner loop that leaves the user at the first refused grant.
RECURSIVE AssignRolesStopAtRefusal(_, _, _, _, _, _, _)
AssignRolesStopAtRefusal(username, roles, r, user_result, summary, log, oks) ==
    IF r > Len(roles) THEN [user_result |-> user_result, summary |-> summary, log |-> log]
    ELSE LET l1 == execute(log, "GRANT ROLE " \o Fmt(roles[r]) \o " TO USER " \o Fmt(username), oks)
             sm == [summary EXCEPT
                       !.successful_assignments = IF Raised(l1) THEN @ ELSE @ + 1,
                       !.failed_assignments = IF Raised(l1) THEN @ + 1 ELSE @,
                       !.total_assignments = @ + 1]
         IN  IF Raised(l1)
             THEN [user_result |->
                       [user_result EXCEPT
                           !.failed_roles = Append(@, [role |-> roles[r], error |-> "error"]),
                           !.success = FALSE],
                   summary |-> sm, log |-> l1]
             ELSE AssignRolesStopAtRefusal(username, roles, r + 1,
                       [user_result EXCEPT !.assigned_roles = Append(@, roles[r])],
                       sm, l1, oks)

\* The inner loop of assign_users_to_roles from role r of one user on.
RECURSIVE AssignRoles(_, _, _, _, _, _, _)
AssignRoles(username, roles, r, user_result, summary, log, oks) ==
    IF r > Len(roles) THEN [user_result |-> user_result, summary |-> summary, log |-> log]
    ELSE LET l1 == execute(log, "GRANT ROLE " \o Fmt(roles[r]) \o " TO USER " \o Fmt(username), oks)
             ur == IF Raised(l1)
                   THEN [user_result EXCEPT
                            !.failed_roles = Append(@, [role |-> roles[r], error |-> "error"]),
                            !.success = FALSE]
                   ELSE [user_result EXCEPT !.assigned_roles = Append(@, roles[r])]
             sm == [summary EXCEPT
                       !.successful_assignments = IF Raised(l1) THEN @ ELSE @ + 1,
                       !.failed_assignments = IF Raised(l1) THEN @ + 1 ELSE @,
                       !.total_assignments = @ + 1]
         IN  AssignRoles(username, roles, r + 1, ur, sm, l1, oks)

\* The outer loop of assign_users_to_roles from user u on.
RECURSIVE AssignUsers(_, _, _, _, _)
AssignUsers(user_assignments, u, res, log, oks) ==
    IF u > Len(user_assignments) THEN [results |-> res, log |-> log, raised |-> FALSE]
    ELSE IF ~({"username", "roles"} \subseteq DOMAIN user_assignments[u])
    THEN [results |-> res, log |-> log, raised |-> TRUE]
    ELSE LET username == user_assignments[u]["username"]
             a == AssignRoles(username, user_assignments[u]["roles"], 1,
                              [username |-> username, assigned_roles |-> <<>>,
                               failed_roles |-> <<>>, success |-> TRUE],
                              res.summary, log, oks)
         IN  AssignUsers(user_assignments, u + 1,
                         [res EXCEPT !.users = DictSet(@, username, a.user_result),
                                     !.summary = a.summary],
                         a.log, oks)

\* assign_users_to_roles() as complete_rbac_setup calls it: the users come
\* from rbac.user_assignments.example_users.
assign_users_to_roles(rbac, oks) ==
    AssignUsers(Get(Get(rbac, "user_assignments", EmptyDict), "example_users", <<>>), 1,
                [ users |-> EmptyDict,
                  summary |-> [total_assignments |-> 0, successful_assignments |-> 0,
                               failed_assignments |-> 0] ],
                <<>>, oks)

-----------------------------------------------------------------------------
(* RBAC manager: complete_rbac_setup *)

\* RBACManager(cursor, config): rbac_config is read from the configuration.
InitRbac ==
    /\ Idle
    /\ config = EmptyDict
    /\ \E sr \in SeqUpTo(SetupRoleSpecs, MaxRoles) :
       \E sf \in SeqUpTo(SetupRoleSpecs, MaxRoles - Len(sr)) :
       \E h \in HierarchyConfigs, ua \in UserAssignmentConfigs :
          rbac_config = RbacConfig(sr, sf, h, ua)

\* The instructions of one phase, marked with the phase and their place in it.
TaggedPhase(log, phase) ==
    [k \in 1..Len(log) |-> [sql |-> log[k].sql, ok |-> log[k].ok, req |-> <<phase, k>>]]

\* Number of GRANT instructions the privileges of one role can need.
GrantCount(role_config) ==
    LET privileges == Get(role_config, "privileges", EmptyDict) IN
    Cardinality(UNION { UNION { {<<key, k, o>> : o \in 1..Len(Get(privileges[key][k], "objects", <<>>))}
                                : k \in 1..Len(privileges[key]) }
                        : key \in DOMAIN privileges })

\* Upper limits of the number of instructions the phases can issue: the
\* executor's answers are drawn for that many calls.
RoleInstructionLimit(rbac) ==
    LET all == Get(rbac, "service_roles", <<>>) \o Get(rbac, "system_full_roles", <<>>)
        limit[k \in 0..Len(all)] == IF k = 0 THEN 0 ELSE limit[k - 1] + GrantCount(all[k])
    IN  limit[Len(all)]

HierarchyInstructionLimit(rbac) ==
    LET hs == Get(rbac, "role_hierarchy", <<>>)
        limit[k \in 0..Len(hs)] ==
            IF k = 0 THEN 0 ELSE limit[k - 1] + Len(Get(hs[k], "children", <<>>))
    IN  limit[Len(hs)]

UserInstructionLimit(rbac) ==
    LET us == Get(Get(rbac, "user_assignments", EmptyDict), "example_users", <<>>)
        limit[k \in 0..Len(us)] ==
            IF k = 0 THEN 0 ELSE limit[k - 1] + Len(Get(us[k], "roles", <<>>))
    IN  limit[Len(us)]

\* setup_result['phases'][phase] = result (a dict keeps insertion order).
WithPhase(sr, phase, result) ==
    [sr EXCEPT !.phases = Append(@, [name |-> phase, result |-> result])]

\* An except clause that hands back a fresh result: the phases recorded so
\* far are lost.
SetupExceptLosesPhases(sr) ==
    [k \in DOMAIN sr \cup {"error"} |->
        IF k = "error" THEN "error" ELSE IF k = "overall_success" THEN FALSE
        ELSE IF k = "phases" THEN <<>> ELSE sr[k]]

\* The except clause of complete_rbac_setup.
SetupExcept(sr) ==
    [k \in DOMAIN sr \cup {"error"} |->
        IF k = "error" THEN "error" ELSE IF k = "overall_success" THEN FALSE ELSE sr[k]]

\* The phases whose result maps names to booleans.
FlagPhases == {"service_roles", "system_full_roles", "hierarchy"}

\* all(result.values()) for the result of a phase.  The time stamps and the
\* summary dicts are never empty; a dict or a string is true unless empty.
AllValues(phase) ==
    IF phase.name \in FlagPhases
    THEN \A k \in DOMAIN phase.result : phase.result[k]
    ELSE IF phase.name = "privileges"
    THEN phase.result.target_database # "" /\ phase.result.roles # EmptyDict
    ELSE phase.result.users # EmptyDict

\* result['summary'].get(...) raises AttributeError when result['summary']
\* is a boolean, that is when a name -> bool result has the key summary.
CheckRaises(phase) ==
    "summary" \in DOMAIN phase.result /\ phase.name \in FlagPhases

\* The if/elif chain of the overall-success check for one phase.
PhaseFailed(phase) ==
    IF "summary" \in DOMAIN phase.result
          /\ Get(phase.result["summary"], "failed_roles", 0) > 0
    THEN TRUE
    ELSE IF phase.name = "hierarchy" /\ ~AllValues(phase) THEN TRUE
    ELSE ~AllValues(phase)

\* failed_phases: the failed phases in the order of setup_result['phases'].
RECURSIVE FailedPhases(_, _)
FailedPhases(phases, k) ==
    IF k > Len(phases) THEN <<>>
    ELSE (IF PhaseFailed(phases[k]) THEN <<phases[k].name>> ELSE <<>>)
         \o FailedPhases(phases, k + 1)

\* The overall-success check at the end of the try block.
CheckOverallSuccess(sr) ==
    IF \E k \in 1..Len(sr.phases) : CheckRaises(sr.phases[k])
    THEN SetupExcept(sr)
    ELSE LET failed_phases == FailedPhases(sr.phases, 1) IN
         IF failed_phases # <<>>
         THEN [k \in DOMAIN sr \cup {"failed_phases"} |->
                  IF k = "failed_phases" THEN failed_phases
                  ELSE IF k = "overall_success" THEN FALSE ELSE sr[k]]
         ELSE sr

\* complete_rbac_setup is called.
RbacStart ==
    /\ pc = "idle"
    /\ \E args \in {[target_database |-> "DEV"]}
                   \cup {[target_database |-> "DEV", role_types |-> rt] : rt \in RoleTypeArgs} :
          /\ rbac_args' = args
          /\ setup_result' = [ target_database |-> args.target_database, phases |-> <<>>,
                               overall_success |-> TRUE ]
    /\ pc' = "rbac_service_roles"
    /\ UNCHANGED <<operation_config, results, pos, issued, config, call, rbac_config,
                   privileges_result>>

\* A setup that gives up after a phase in which an instruction was refused:
\* the later phases are skipped and the check follows at once.
AfterPhaseStopOnFailure(phase, r, next) ==
    /\ issued' = issued \o TaggedPhase(r.log, phase)
    /\ IF r.raised
       THEN /\ setup_result' = SetupExcept(setup_result)
            /\ pc' = "rbac_returned"
       ELSE /\ setup_result' = WithPhase(setup_result, phase, r.results)
            /\ pc' = IF \E k \in 1..Len(r.log) : ~r.log[k].ok THEN "rbac_check" ELSE next
    /\ UNCHANGED <<operation_config, results, pos, config, call, rbac_config, rbac_args,
                   privileges_result>>

\* What a phase leaves behind: its instructions in the log, then either its
\* result under setup_result['phases'] or, if it raised, the except clause.
AfterPhase(phase, r, next) ==
    /\ issued' = issued \o TaggedPhase(r.log, phase)
    /\ IF r.raised
       THEN /\ setup_result' = SetupExcept(setup_result)
            /\ pc' = "rbac_returned"
       ELSE /\ setup_result' = WithPhase(setup_result, phase, r.results)
            /\ pc' = next
    /\ UNCHANGED <<operation_config, results, pos, config, call, rbac_config, rbac_args,
                   privileges_result>>

\* Phase 1.
RbacCreateServiceRoles ==
    /\ pc = "rbac_service_roles"
    /\ \E oks \in [1..Len(Get(rbac_config, "service_roles", <<>>)) -> BOOLEAN] :
          AfterPhase("service_roles", create_service_roles(rbac_config, oks),
                     "rbac_system_full_roles")

\* Phase 2.
RbacCreateSystemFullRoles ==
    /\ pc = "rbac_system_full_roles"
    /\ \E oks \in [1..Len(Get(rbac_config, "system_full_roles", <<>>)) -> BOOLEAN] :
          AfterPhase("system_full_roles", create_system_full_roles(rbac_config, oks),
                     "rbac_privileges")

\* Phase 3.
RbacApplyPrivileges ==
    /\ pc = "rbac_privileges"
    /\ \E oks \in [1..RoleInstructionLimit(rbac_config) -> BOOLEAN] :
          AfterPhase("privileges",
                     apply_role_privileges(rbac_config, rbac_args.target_database, rbac_args, oks),
                     "rbac_hierarchy")

\* Phase 4; phase 5 follows only if rbac.user_assignments is non-empty.
RbacSetupHierarchy ==
    /\ pc = "rbac_hierarchy"
    /\ \E oks \in [1..HierarchyInstructionLimit(rbac_config) -> BOOLEAN] :
          AfterPhase("hierarchy", setup_role_hierarchy(rbac_config, oks),
                     IF Get(rbac_config, "user_assignments", EmptyDict) # EmptyDict
                     THEN "rbac_user_assignments" ELSE "rbac_check")

\* Phase 5.
RbacAssignUsers ==
    /\ pc = "rbac_user_assignments"
    /\ \E oks \in [1..UserInstructionLimit(rbac_config) -> BOOLEAN] :
          AfterPhase("user_assignments", assign_users_to_roles(rbac_config, oks), "rbac_check")

\* The overall-success check, then the return.
RbacReturn ==
    /\ pc = "rbac_check"
    /\ setup_result' = CheckOverallSuccess(setup_result)
    /\ pc' = "rbac_returned"
    /\ UNCHANGED <<operation_config, results, pos, issued, config, call, rbac_config, rbac_args,
                   privileges_result>>

NextRbac ==
    \/ RbacStart
    \/ RbacCreateServiceRoles
    \/ RbacCreateSystemFullRoles
    \/ RbacApplyPrivileges
    \/ RbacSetupHierarchy
    \/ RbacAssignUsers
    \/ RbacReturn

SpecRbac == InitRbac /\ [][NextRbac]_vars

-----------------------------------------------------------------------------
(* RBAC manager: apply_role_privileges called directly *)

InitPrivileges ==
    /\ Idle
    /\ config = EmptyDict
    /\ \E sr \in SeqUpTo(RoleSpecs, MaxRoles) :
       \E sf \in SeqUpTo(RoleSpecs, MaxRoles - Len(sr)) :
          rbac_config = RbacConfig(sr, sf, <<>>, EmptyDict)

\* apply_role_privileges(target_database, role_types) is called and returns.
CallApplyRolePrivileges ==
    /\ pc = "idle"
    /\ \E args \in {[target_database |-> "DEV"]}
                   \cup {[target_database |-> "DEV", role_types |-> rt] : rt \in RoleTypeArgs} :
       \E oks \in [1..RoleInstructionLimit(rbac_config) -> BOOLEAN] :
          LET r == apply_role_privileges(rbac_config, args.target_database, args, oks) IN
          /\ rbac_args' = args
          /\ issued' = issued \o TaggedPhase(r.log, "privileges")
          /\ privileges_result' = r.results
          /\ pc' = IF r.raised THEN "privileges_raised" ELSE "privileges_returned"
    /\ UNCHANGED <<operation_config, results, pos, config, call, rbac_config, setup_result>>

NextPrivileges == CallApplyRolePrivileges

SpecPrivileges == InitPrivileges /\ [][NextPrivileges]_vars

-----------------------------------------------------------------------------
(* RBAC manager: _substitute_variables called directly *)

\* The pieces object patterns are put together from: the placeholder, a
\* schema-level suffix and a warehouse prefix.
PatternParts == {Placeholder, ".PUBLIC.*", "WH_"}

\* The pieces of a pattern written one after the other.
Concat(parts) ==
    LET c[k \in 0..Len(parts)] == IF k = 0 THEN "" ELSE c[k - 1] \o parts[k]
    IN  c[Len(parts)]

\* The object patterns and the values of target_database.
Patterns == {Concat(parts) : parts \in SeqUpTo(PatternParts, MaxParts)}

TargetDatabases == {"DEV", "", Placeholder}

\* The arguments of the call are chosen.
InitSubstitute ==
    /\ pc = "idle"
    /\ operation_config = EmptyDict
    /\ results = EmptyDict
    /\ pos = <<"none", 0>>
    /\ issued = <<>>
    /\ call = NoCall
    /\ config = EmptyDict
    /\ rbac_config = EmptyDict
    /\ setup_result = EmptyDict
    /\ privileges_result = EmptyDict
    /\ \E objects \in SeqUpTo(Patterns, MaxPatterns), target_database \in TargetDatabases :
          rbac_args = [objects |-> objects, target_database |-> target_database]

\* _substitute_variables(objects, target_database) is called and returns.
CallSubstituteVariables ==
    /\ pc = "idle"
    /\ call' = [n |-> 1, fn |-> "_substitute_variables",
                args |-> <<rbac_args.objects, rbac_args.target_database>>,
                ret |-> _substitute_variables(rbac_args.objects, rbac_args.target_database),
                raised |-> FALSE, log |-> <<>>]
    /\ pc' = "substituted"
    /\ UNCHANGED <<operation_config, results, pos, issued, config, rbac_config, rbac_args,
                   setup_result, privileges_result>>

NextSubstitute == CallSubstituteVariables

SpecSubstitute == InitSubstitute /\ [][NextSubstitute]_vars

-----------------------------------------------------------------------------
(* RBAC manager: audit_rbac_configuration *)

\* cursor.execute(sql) followed by cursor.fetchall(): the call is appended to
\* the log with the rows it answers; rows[k] are the rows of the k-th call
\* of the operation when it returns.
execute_fetchall(log, sql, oks, rows) ==
    Append(log, [sql |-> sql, ok |-> oks[Len(log) + 1],
                 rows |-> IF oks[Len(log) + 1] THEN rows[Len(log) + 1] ELSE <<>>])

\* The rows SHOW ROLES answers with: created_on, name, owner, comment; every
\* second row stops after the name.  The names of the roles of a warehouse
\* differ from each other.
RoleRow(k) ==
    IF k % 2 = 1 THEN <<"2024-01-01", "ROLE_" \o ToString(k), "SECURITYADMIN", "">>
    ELSE <<"2024-01-01", "ROLE_" \o ToString(k)>>

ListedRoles(n) == [k \in 1..n |-> RoleRow(k)]

\* The rows SHOW GRANTS TO ROLE answers with: none, one grant, or two, the
\* second without the granted_to and grantee_name columns.
GrantListings ==
    { <<>>,
      << <<"2024-01-01", "USAGE", "DATABASE", "DEV", "ROLE", "R">> >>,
      << <<"2024-01-01", "USAGE", "DATABASE", "DEV", "ROLE", "R">>,
         <<"2024-01-01", "SELECT", "TABLE", "DEV.S.T">> >> }

\* What the warehouse does with one SHOW GRANTS TO ROLE: it refuses, or it
\* answers with one of the listings.
GrantAnswers ==
    {[ok |-> FALSE, rows |-> <<>>]} \cup {[ok |-> TRUE, rows |-> l] : l \in GrantListings}

\* audit_result['roles'][role_name] of one row.
role_info(role) ==
    [ created_on |-> role[1],
      owner |-> IF Len(role) > 2 THEN role[3] ELSE None,
      comment |-> IF Len(role) > 3 THEN role[4] ELSE None ]

\* The first loop of audit_rbac_configuration over the rows of SHOW ROLES.
AuditListedRoles(audit_result, roles) ==
    LET after[k \in 0..Len(roles)] ==
            IF k = 0 THEN audit_result
            ELSE [after[k - 1] EXCEPT !.roles = DictSet(@, roles[k][2], role_info(roles[k])),
                                      !.summary.total_roles = @ + 1]
    IN  after[Len(roles)]

\* audit_result['roles'].keys(): the role names in the order of their first
\* row.
KeysInOrder(roles) ==
    LET keys[k \in 0..Len(roles)] ==
            IF k = 0 THEN <<>>
            ELSE IF \E j \in 1..Len(keys[k - 1]) : keys[k - 1][j] = roles[k][2]
            THEN keys[k - 1]
            ELSE Append(keys[k - 1], roles[k][2])
    IN  keys[Len(roles)]

\* One row of SHOW GRANTS as grant_info.
grant_info(grant) ==
    [ privilege |-> grant[2], granted_on |-> grant[3], name |-> grant[4],
      granted_to |-> IF Len(grant) > 4 THEN grant[5] ELSE None,
      grantee_name |-> IF Len(grant) > 5 THEN grant[6] ELSE None ]

\* An audit that enters a role whose grants could not be read into the
\* grants mapping, with an empty list, and counts it.
AuditRoleGrantsListsUnreadable(audit_result, role_name, log) ==
    LET grants == log[Len(log)].rows
        role_grants == [g \in 1..Len(grants) |-> grant_info(grants[g])]
    IN  IF Raised(log) \/ Len(role_grants) > 0
        THEN [audit_result EXCEPT !.grants = DictSet(@, role_name, role_grants),
                                  !.summary.roles_with_grants = @ + 1]
        ELSE audit_result

\* The body of the second loop after SHOW GRANTS TO ROLE was sent (the last
\* entry of the log): the inner except clause only logs a warning; a role
\* with an empty listing is not entered either.
AuditRoleGrants(audit_result, role_name, log) ==
    IF Raised(log) THEN audit_result
    ELSE LET grants == log[Len(log)].rows
             role_grants == [g \in 1..Len(grants) |-> grant_info(grants[g])]
         IN  IF Len(role_grants) > 0
             THEN [audit_result EXCEPT !.grants = DictSet(@, role_name, role_grants),
                                       !.summary.roles_with_grants = @ + 1]
             ELSE audit_result

\* The second loop from role k on.
RECURSIVE AuditGrants(_, _, _, _, _, _)
AuditGrants(names, k, audit_result, log, oks, rows) ==
    IF k > Len(names) THEN [result |-> audit_result, log |-> log]
    ELSE LET l1 == execute_fetchall(log, "SHOW GRANTS TO ROLE " \o Fmt(names[k]), oks, rows)
         IN  AuditGrants(names, k + 1, AuditRoleGrants(audit_result, names[k], l1), l1, oks, rows)

\* audit_rbac_configuration: everything after the creation of audit_result
\* (the time stamp is left out) runs inside the outer try block, whose
\* except clause puts the failure into audit_result['error'].
audit_rbac_configuration(target_database, oks, rows) ==
    LET audit_result ==
            [ target_database |-> target_database, roles |-> EmptyDict, grants |-> EmptyDict,
              users |-> EmptyDict,
              summary |-> [total_roles |-> 0, roles_with_grants |-> 0, users_with_roles |-> 0] ]
        l1 == execute_fetchall(<<>>, "SHOW ROLES", oks, rows)
    IN  IF Raised(l1)
        THEN [ret |-> DictSet(audit_result, "error", "error"), raised |-> FALSE, log |-> l1]
        ELSE LET roles == l1[1].rows
                 r == AuditGrants(KeysInOrder(roles), 1, AuditListedRoles(audit_result, roles),
                                  l1, oks, rows)
             IN  [ret |-> r.result, raised |-> FALSE, log |-> r.log]

\* RBACManager(cursor, config) is constructed; the audit reads the warehouse
\* only.
InitAudit ==
    /\ Idle
    /\ config = EmptyDict
    /\ rbac_config = EmptyDict

\* audit_rbac_configuration(target_database) is called and returns: the
\* warehouse lists up to MaxAuditRoles roles, and every query is answered or
\* refused.
CallAuditRbacConfiguration ==
    /\ pc = "idle"
    /\ \E n \in 0..MaxAuditRoles :
       \E listed \in BOOLEAN, answers \in [1..n -> GrantAnswers] :
          LET oks == <<listed>> \o [k \in 1..n |-> answers[k].ok]
              rows == <<ListedRoles(n)>> \o [k \in 1..n |-> answers[k].rows]
          IN  AfterCall("audit_rbac_configuration", <<"DEV">>,
                        audit_rbac_configuration("DEV", oks, rows))

NextAudit == CallAuditRbacConfiguration

SpecAudit == InitAudit /\ [][NextAudit]_vars

-----------------------------------------------------------------------------
(* Clone engine: validate_clone_operation *)

\* The objects a validation is asked about.
CloneObjects == {"PROD.DB", "DEV.DB"}

\* The rows SHOW CLONES can answer with: source, clone, created_on and, in
\* one of them, the clone type.
LineageRows ==
    { <<"PROD.DB", "DEV.DB", "2024-01-01", "ZERO_COPY">>,
      <<"DEV.DB", "PROD.DB", "2024-01-01">>,
      <<"PROD.DB", "TEST.DB", "2024-01-01">> }

\* get_clone_history(object_name), called with the log of the caller: SHOW
\* CLONES, filtered when a name is given, and one clone_info per row; on any
\* exception the empty list.
get_clone_history(object_name, log, oks, rows) ==
    LET query == IF Truthy(object_name) THEN "SHOW CLONES LIKE '" \o Fmt(object_name) \o "'"
                 ELSE "SHOW CLONES"
        l1 == execute_fetchall(log, query, oks, rows)
        clones == l1[Len(l1)].rows
    IN  IF Raised(l1) THEN [ret |-> <<>>, log |-> l1]
        ELSE [ret |-> [k \in 1..Len(clones) |->
                          [ source_object |-> clones[k][1], clone_object |-> clones[k][2],
                            created_on |-> clones[k][3],
                            clone_type |-> IF Len(clones[k]) > 3 THEN clones[k][4] ELSE None ]],
              log |-> l1]

\* A validation that takes any lineage record of the target for the clone
\* relationship, whatever its source.
validate_clone_operation_any_source(source_obj, target_obj, oks, rows) ==
    LET l1 == execute(<<>>, "DESCRIBE " \o Fmt(source_obj), oks)
        l2 == execute(l1, "DESCRIBE " \o Fmt(target_obj), oks)
        h == get_clone_history(target_obj, l2, oks, rows)
        checks == [ target_exists |-> ~Raised(l2), source_accessible |-> ~Raised(l1),
                    clone_relationship |->
                        \E k \in 1..Len(h.ret) : h.ret[k].clone_object = target_obj ]
    IN  [ ret |-> [ source |-> source_obj, target |-> target_obj, checks |-> checks,
                    overall_status |->
                        IF \A c \in DOMAIN checks : checks[c] THEN "SUCCESS" ELSE "FAILED" ],
          raised |-> FALSE, log |-> h.log ]

\* validate_clone_operation: DESCRIBE of the source and of the target, each
\* in a try/except of its own that leaves the flag False, then the clone
\* history of the target searched for the record source -> target; SUCCESS
\* if all three flags are set (the time stamp is left out).
validate_clone_operation(source_obj, target_obj, oks, rows) ==
    LET l1 == execute(<<>>, "DESCRIBE " \o Fmt(source_obj), oks)
        l2 == execute(l1, "DESCRIBE " \o Fmt(target_obj), oks)
        h == get_clone_history(target_obj, l2, oks, rows)
        checks == [ target_exists |-> ~Raised(l2), source_accessible |-> ~Raised(l1),
                    clone_relationship |->
                        \E k \in 1..Len(h.ret) : /\ h.ret[k].source_object = source_obj
                                                 /\ h.ret[k].clone_object = target_obj ]
    IN  [ ret |-> [ source |-> source_obj, target |-> target_obj, checks |-> checks,
                    overall_status |->
                        IF \A c \in DOMAIN checks : checks[c] THEN "SUCCESS" ELSE "FAILED" ],
          raised |-> FALSE, log |-> h.log ]

\* SnowflakeCloneFramework is constructed; the validation reads the
\* warehouse only.
InitValidate ==
    /\ Idle
    /\ config = EmptyDict
    /\ rbac_config = EmptyDict

\* validate_clone_operation(source_obj, target_obj) is called and returns:
\* every query is answered or refused, the clone history with up to
\* MaxLineage rows.
CallValidateCloneOperation ==
    /\ pc = "idle"
    /\ \E source_obj \in CloneObjects, target_obj \in CloneObjects \cup {""},
          oks \in [1..3 -> BOOLEAN], lineage \in SeqUpTo(LineageRows, MaxLineage) :
          AfterCall("validate_clone_operation", <<source_obj, target_obj>>,
                    validate_clone_operation(source_obj, target_obj, oks,
                                             <<(<<>>), (<<>>), lineage>>))

NextValidate == CallValidateCloneOperation

SpecValidate == InitValidate /\ [][NextValidate]_vars

-----------------------------------------------------------------------------
(* Texts, as the properties read them *)

\* The text s begins with the text p.
StartsWith(s, p) == Len(s) >= Len(p) /\ SubSeq(s, 1, Len(p)) = p

\* The text sub occurs in the text s.
Occurs(sub, s) ==
    \E i \in 1..(Len(s) - Len(sub) + 1) : SubSeq(s, i, i + Len(sub) - 1) = sub

-----------------------------------------------------------------------------
(* Properties of the bulk orchestrator *)

\* Rank of a group in the order the specification fixes.
Rank(g) == IF g = "databases" THEN 1 ELSE IF g = "schemas" THEN 2 ELSE 3

\* The requests of the running operation set, as <<group, index>>.
Requests ==
    UNION {{<<g, i>> : i \in 1..Len(ListOf(operation_config, g))} : g \in Groups}

\* Some instruction was issued for request req.
Attempted(req) == \E k \in 1..Len(issued) : issued[k].req = req

\* Request req ended in failure: one of its instructions was refused.
RequestFailed(req) == \E k \in 1..Len(issued) : issued[k].req = req /\ ~issued[k].ok

\* C1: the report bulk_clone_operation returns for an operation set of N
\* requests has total_operations = successful_operations + failed_operations
\* = N, whatever the executor accepted or refused.
C1_SummaryTotals ==
    pc = "bulk_returned" =>
        /\ results.summary.total_operations = NumRequests(operation_config)
        /\ results.summary.total_operations =
              results.summary.successful_operations + results.summary.failed_operations

\* A returned report of three requests of which some succeeded and some failed.
C1_Witness ==
    /\ pc = "bulk_returned"
    /\ NumRequests(operation_config) = 3
    /\ results.summary.successful_operations > 0
    /\ results.summary.failed_operations > 0

\* Number of recorded outcomes of a partition with the given success flag.
Recorded(group, flag) ==
    Cardinality({k \in DOMAIN results[group] : results[group][k].success = flag})

\* C7: in every returned report the summary counts equal the sizes of the
\* recorded partitions: total = entries of databases + schemas + tables,
\* successful/failed = recorded outcomes with success true/false.
C7_SummaryMatchesPartitions ==
    pc = "bulk_returned" =>
        /\ results.summary.total_operations =
              Cardinality(DOMAIN results.databases) + Cardinality(DOMAIN results.schemas)
              + Cardinality(DOMAIN results.tables)
        /\ results.summary.successful_operations =
              Recorded("databases", TRUE) + Recorded("schemas", TRUE) + Recorded("tables", TRUE)
        /\ results.summary.failed_operations =
              Recorded("databases", FALSE) + Recorded("schemas", FALSE) + Recorded("tables", FALSE)

\* C8: every request of the operation set is attempted, whatever failed
\* before it: once the loops have passed a request, one of its instructions
\* is in the log, and a returned run has attempted every request.
C8_EveryRequestAttempted ==
    /\ pc = "bulk" =>
          \A req \in Requests :
             (pos[1] # "end" /\ (req[1] = pos[1] => req[2] >= pos[2])
                /\ (req[1] # pos[1] => Rank(req[1]) > Rank(pos[1])))
             \/ Attempted(req)
    /\ pc = "bulk_returned" => \A req \in Requests : Attempted(req)

\* A returned run in which a request failed and a later request of the same
\* group and one of a later group were still attempted.
C8_Witness ==
    /\ pc = "bulk_returned"
    /\ Len(ListOf(operation_config, "databases")) = 2
    /\ Len(ListOf(operation_config, "tables")) = 1
    /\ RequestFailed(<<"databases", 1>>)
    /\ Attempted(<<"databases", 2>>)
    /\ Attempted(<<"tables", 1>>)

\* C9: every instruction of a database request is issued before any of a
\* schema request, every instruction of a schema request before any of a
\* table request, and within a group the requests run in list order.
C9_GroupOrder ==
    pc \in {"bulk", "bulk_returned", "bulk_raised"} =>
        \A j, k \in 1..Len(issued) :
            j < k =>
               \/ Rank(issued[j].req[1]) < Rank(issued[k].req[1])
               \/ /\ issued[j].req[1] = issued[k].req[1]
                  /\ issued[j].req[2] <= issued[k].req[2]

\* A run that issued instructions for all three groups.
C9_Witness ==
    /\ pc = "bulk_returned"
    /\ \A g \in Groups : \E k \in 1..Len(issued) : issued[k].req[1] = g
    /\ Len(ListOf(operation_config, "schemas")) = 1

\* The keys a request of a group must have.
RequiredKeys(g) ==
    IF g = "databases" THEN {"source", "target"}
    ELSE IF g = "schemas" THEN {"source_db", "source_schema", "target_db"}
    ELSE {"source_db", "source_schema", "source_table", "target_db"}

\* Request req of the operation set lacks a required key.
Malformed(req) == ~(RequiredKeys(req[1]) \subseteq DOMAIN operation_config[req[1]][req[2]])

\* C14: when a bulk run meets an unexpected failure (a request entry that
\* lacks a required field), bulk_clone_operation does not raise: the run ends
\* with a returned report that carries the failure description, is not a
\* plain success, and still has the outcomes of the requests processed
\* before the failure.
C14_BulkFailureReturned ==
    (pc \in {"bulk_raised", "bulk_returned"} /\ \E req \in Requests : Malformed(req)) =>
        /\ pc = "bulk_returned"
        /\ "error" \in DOMAIN results
        /\ \A req \in Requests :
              Attempted(req) => results.summary.total_operations > 0

\* The key under which the report records a request: the target database,
\* schema or table as the request names it, an absent target segment being
\* the source segment.
RequestKey(req) ==
    LET c == operation_config[req[1]][req[2]] IN
    IF req[1] = "databases" THEN Fmt(c["target"])
    ELSE IF req[1] = "schemas"
    THEN Fmt(c["target_db"]) \o "." \o Fmt(Get(c, "target_schema", c["source_schema"]))
    ELSE Fmt(c["target_db"]) \o "." \o Fmt(Get(c, "target_schema", c["source_schema"]))
         \o "." \o Fmt(Get(c, "target_table", c["source_table"]))

\* Two requests of one group with the same key, the first standing earlier.
Collide(req1, req2) ==
    /\ req1[1] = req2[1]
    /\ req1[2] < req2[2]
    /\ RequestKey(req1) = RequestKey(req2)

\* C25: when two requests of the same group resolve to the same target key,
\* both are executed and both are counted in the summary, and the report has
\* one entry for the key, which holds the outcome of the later request.
C25_CollisionOverwrites ==
    pc = "bulk_returned" =>
        \A req1, req2 \in Requests :
            Collide(req1, req2) =>
                /\ Attempted(req1) /\ Attempted(req2)
                /\ results.summary.total_operations = NumRequests(operation_config)
                /\ RequestKey(req2) \in DOMAIN results[req2[1]]
                /\ (\A req3 \in Requests : ~Collide(req2, req3)) =>
                      results[req2[1]][RequestKey(req2)].success = ~RequestFailed(req2)
                /\ Cardinality(DOMAIN results[req2[1]]) =
                      Cardinality({RequestKey(req) : req \in {q \in Requests : q[1] = req2[1]}})

\* Two table requests with the same key, the first failed and the second
\* succeeded: the one entry says success.
C25_Witness ==
    /\ pc = "bulk_returned"
    /\ Len(ListOf(operation_config, "tables")) = 2
    /\ Collide(<<"tables", 1>>, <<"tables", 2>>)
    /\ RequestFailed(<<"tables", 1>>)
    /\ ~RequestFailed(<<"tables", 2>>)
    /\ results.summary.failed_operations = 1
    /\ results.tables[RequestKey(<<"tables", 2>>)].success

\* C27: for every schema-level and table-level request of a bulk run, the
\* key under which its outcome is recorded is the fully qualified target
\* name of its clone instruction, also when target_schema or target_table is
\* present in the request with a null value: every clone instruction issued
\* for such a request names a target that is a key of the request's group.
C27_KeyIsCloneTarget ==
    pc \in {"bulk", "bulk_returned", "bulk_raised"} =>
        \A k \in 1..Len(issued) :
            ( /\ issued[k].req[1] \in {"schemas", "tables"}
              /\ Occurs(" CLONE ", issued[k].sql) )
            => \E key \in DOMAIN results[issued[k].req[1]] :
                   StartsWith(issued[k].sql,
                              (IF issued[k].req[1] = "schemas" THEN "CREATE SCHEMA "
                               ELSE "CREATE TABLE ") \o key \o " CLONE ")

-----------------------------------------------------------------------------
(* Properties of the clone engine *)

\* Number of instructions a clone operation issues when none is refused.
FullLength(fn) == IF fn = "clone_database" THEN 1 ELSE IF fn = "clone_schema" THEN 2 ELSE 3

\* C10: clone_database, clone_schema and clone_table never raise when the
\* executor refuses an instruction: a refusal at any step gives the return
\* value False, and True is returned only when every instruction of the
\* operation was issued and accepted.
C10_CloneNeverRaises ==
    call.n > 0 =>
        /\ ~call.raised
        /\ (\E k \in 1..Len(call.log) : ~call.log[k].ok) => call.ret = FALSE
        /\ call.ret = TRUE =>
              /\ Len(call.log) = FullLength(call.fn)
              /\ \A k \in 1..Len(call.log) : call.log[k].ok

\* A clone_schema call whose container creation was refused.
C10_Witness ==
    /\ call.fn = "clone_schema"
    /\ Len(call.log) = 1
    /\ ~call.log[1].ok
    /\ call.ret = FALSE

\* C29: within one clone operation no instruction is issued after a
\* refused one: clone_database issues exactly 1 instruction, clone_schema at
\* most 2 and clone_table at most 3, and the clone statement is issued only
\* when every create-if-absent instruction before it was accepted.
C29_NothingAfterRefusal ==
    call.n > 0 =>
        /\ \A k \in 1..Len(call.log) : ~call.log[k].ok => k = Len(call.log)
        /\ Len(call.log) \in 1..FullLength(call.fn)
        /\ call.fn = "clone_database" => Len(call.log) = 1
        /\ \A k \in 1..Len(call.log) :
              Occurs(" CLONE ", call.log[k].sql) =>
                  /\ k = FullLength(call.fn)
                  /\ \A j \in 1..(k - 1) :
                        /\ Occurs(" IF NOT EXISTS ", call.log[j].sql)
                        /\ call.log[j].ok

\* A clone_table call that ended at its refused schema creation, the table
\* clone never issued.
C29_Witness ==
    /\ call.fn = "clone_table"
    /\ Len(call.log) = 2
    /\ call.log[1].ok
    /\ ~call.log[2].ok
    /\ StartsWith(call.log[2].sql, "CREATE SCHEMA IF NOT EXISTS ")
    /\ call.ret = FALSE

\* C11: clone_database called with mode AT_TIME while no timestamp is
\* available (the call has no timestamp argument and the configuration has
\* no cloning.at_time) fails with a ConfigurationError, which leaves the
\* function, and issues no clone instruction.
C11_AtTimeNeedsTimestamp ==
    ( /\ call.fn = "clone_database"
      /\ Upper(call.args[3]) = "AT_TIME"
      /\ ~Truthy(Get(Get(config, "cloning", EmptyDict), "at_time", None)) )
    => call.raised /\ call.log = <<>>

\* The arguments of the last clone_schema / clone_table call by name, and the
\* target segments the specification resolves them to: an omitted target
\* segment is the source segment.
SourcePath ==
    IF call.fn = "clone_schema" THEN call.args[1] \o "." \o call.args[2]
    ELSE call.args[1] \o "." \o call.args[2] \o "." \o call.args[3]

TargetDb == IF call.fn = "clone_schema" THEN call.args[3] ELSE call.args[4]

TargetSchemaArg == IF call.fn = "clone_schema" THEN call.args[4] ELSE call.args[5]

TargetSchemaPath ==
    TargetDb \o "." \o (IF TargetSchemaArg = None THEN call.args[2] ELSE TargetSchemaArg)

TargetTablePath ==
    TargetSchemaPath \o "." \o (IF call.args[6] = None THEN call.args[3] ELSE call.args[6])

\* The instructions of the two operations when nothing is refused.
EnsureDatabase == "CREATE DATABASE IF NOT EXISTS " \o TargetDb

EnsureSchema == "CREATE SCHEMA IF NOT EXISTS " \o TargetSchemaPath

CloneSchemaInstruction == "CREATE SCHEMA " \o TargetSchemaPath \o " CLONE " \o SourcePath

CloneTableInstruction == "CREATE TABLE " \o TargetTablePath \o " CLONE " \o SourcePath

\* The places of an instruction in the log of the last call.
PlacesOf(sql) == {k \in 1..Len(call.log) : call.log[k].sql = sql}

\* C17: clone_schema issues the create-database-if-absent instruction for
\* the target database before the schema clone; clone_table issues
\* create-database-if-absent, then create-schema-if-absent for the target
\* schema, then the table clone: a later instruction of these is never in the
\* log without the earlier ones standing before it, and a call that returned
\* True issued exactly this sequence.
C17_ContainersBeforeClone ==
    /\ call.fn = "clone_schema" =>
          /\ \A k \in PlacesOf(CloneSchemaInstruction) : \E j \in PlacesOf(EnsureDatabase) : j < k
          /\ call.ret = TRUE =>
                [k \in 1..Len(call.log) |-> call.log[k].sql]
                   = <<EnsureDatabase, CloneSchemaInstruction>>
    /\ call.fn = "clone_table" =>
          /\ \A k \in PlacesOf(EnsureSchema) : \E j \in PlacesOf(EnsureDatabase) : j < k
          /\ \A k \in PlacesOf(CloneTableInstruction) : \E j \in PlacesOf(EnsureSchema) : j < k
          /\ call.ret = TRUE =>
                [k \in 1..Len(call.log) |-> call.log[k].sql]
                   = <<EnsureDatabase, EnsureSchema, CloneTableInstruction>>

\* A clone_table call that issued its three instructions, and a clone_schema
\* call before it in the same behaviour.
C17_Witness ==
    /\ call.fn = "clone_table"
    /\ call.n = 2
    /\ PlacesOf(CloneTableInstruction) = {3}
    /\ \E k \in 1..Len(issued) :
          issued[k].req = <<"direct", 1>> /\ StartsWith(issued[k].sql, "CREATE SCHEMA DEV.S CLONE ")

\* What the warehouse holds after the instructions of a log, starting from a
\* warehouse without the targets: an accepted CREATE makes its object exist,
\* an accepted DROP removes it again.
Creates(sql, kind, path) ==
    \/ sql = "CREATE " \o kind \o " IF NOT EXISTS " \o path
    \/ StartsWith(sql, "CREATE " \o kind \o " " \o path \o " CLONE ")

Drops(sql, kind, path) == StartsWith(sql, "DROP " \o kind) /\ Occurs(path, sql)

ExistsAfter(log, kind, path) ==
    \E k \in 1..Len(log) :
        /\ log[k].ok
        /\ Creates(log[k].sql, kind, path)
        /\ \A j \in (k + 1)..Len(log) : ~(log[j].ok /\ Drops(log[j].sql, kind, path))

\* The clone statement of the last call was refused after its containers had
\* been created.
CloneRefusedAfterContainers ==
    /\ call.fn \in {"clone_schema", "clone_table"}
    /\ \E k \in 2..Len(call.log) :
          /\ ~call.log[k].ok
          /\ call.log[k].sql = (IF call.fn = "clone_schema" THEN CloneSchemaInstruction
                                ELSE CloneTableInstruction)
          /\ \A j \in 1..(k - 1) : call.log[j].ok

\* C18: no rollback.  When clone_schema or clone_table has created the
\* target containers and the clone statement is refused, the call returns
\* False, the refused clone is its last instruction, no instruction of the
\* call is a drop, and the target database (for clone_table also the target
\* schema) exists after the call.
C18_NoRollback ==
    CloneRefusedAfterContainers =>
        /\ call.ret = FALSE
        /\ ~call.log[Len(call.log)].ok
        /\ \A k \in 1..Len(call.log) : ~StartsWith(call.log[k].sql, "DROP ")
        /\ ExistsAfter(call.log, "DATABASE", TargetDb)
        /\ call.fn = "clone_table" => ExistsAfter(call.log, "SCHEMA", TargetSchemaPath)

\* A clone_schema call whose container creation was accepted and whose clone
\* was refused.
C18_Witness ==
    /\ call.fn = "clone_schema"
    /\ CloneRefusedAfterContainers
    /\ Len(call.log) = 2
    /\ call.ret = FALSE

\* C19: an omitted target_schema or target_table is the source segment.  A
\* clone_schema or clone_table call in which every instruction is accepted
\* returns True and leaves the target database, the target schema and (for
\* clone_table) the target table existing under the resolved names, the last
\* of them created as a clone of the source; clone_table("PROD", "S", "T",
\* "DEV", None, None) leaves DEV, DEV.S and DEV.S.T, a clone of PROD.S.T.
C19_TargetDefaultsToSource ==
    ( /\ call.fn \in {"clone_schema", "clone_table"}
      /\ Len(call.log) > 0
      /\ \A k \in 1..Len(call.log) : call.log[k].ok )
    => /\ call.ret = TRUE
       /\ ExistsAfter(call.log, "DATABASE", TargetDb)
       /\ ExistsAfter(call.log, "SCHEMA", TargetSchemaPath)
       /\ call.fn = "clone_schema" => call.log[Len(call.log)].sql = CloneSchemaInstruction
       /\ call.fn = "clone_table" =>
             /\ ExistsAfter(call.log, "TABLE", TargetTablePath)
             /\ call.log[Len(call.log)].sql = CloneTableInstruction
       /\ (call.fn = "clone_table" /\ call.args = <<"PROD", "S", "T", "DEV", None, None>>) =>
             /\ ExistsAfter(call.log, "DATABASE", "DEV")
             /\ ExistsAfter(call.log, "SCHEMA", "DEV.S")
             /\ ExistsAfter(call.log, "TABLE", "DEV.S.T")
             /\ call.log[3].sql = "CREATE TABLE DEV.S.T CLONE PROD.S.T"

\* The scenario of the specification.
C19_Witness ==
    /\ call.fn = "clone_table"
    /\ call.args = <<"PROD", "S", "T", "DEV", None, None>>
    /\ call.ret = TRUE
    /\ Len(call.log) = 3

\* A path of exactly three segments, none of them empty.
ThreeSegments(path) ==
    /\ Cardinality({i \in 1..Len(path) : SubSeq(path, i, i) = "."}) = 2
    /\ ~StartsWith(path, ".")
    /\ SubSeq(path, Len(path), Len(path)) # "."
    /\ ~Occurs("..", path)

\* C20: a clone_table call whose source path or resolved target path does
\* not have exactly three segments (a segment empty, or with a path separator
\* in it) fails with an InvalidPathError, which leaves the function, and
\* issues no instruction.
C20_InvalidPathRejected ==
    (call.fn = "clone_table" /\ ~(ThreeSegments(SourcePath) /\ ThreeSegments(TargetTablePath)))
    => call.raised /\ call.log = <<>>

-----------------------------------------------------------------------------
(* Properties of complete_rbac_setup *)

\* The phase recorded under a name in setup_result['phases'].
HasPhase(name) == \E k \in 1..Len(setup_result.phases) : setup_result.phases[k].name = name

PhaseResult(name) ==
    setup_result.phases[CHOOSE k \in 1..Len(setup_result.phases) :
                            setup_result.phases[k].name = name].result

\* The phase is named in failed_phases.
ReportedFailed(name) ==
    /\ "failed_phases" \in DOMAIN setup_result
    /\ \E k \in 1..Len(setup_result["failed_phases"]) : setup_result["failed_phases"][k] = name

\* The failure predicates of the phases.
FlagPhaseFailed(name) ==
    HasPhase(name) /\ \E k \in DOMAIN PhaseResult(name) : ~PhaseResult(name)[k]

PrivilegesPhaseFailed ==
    HasPhase("privileges") /\ PhaseResult("privileges").summary.failed_roles > 0

UserPhaseFailed ==
    /\ HasPhase("user_assignments")
    /\ \E u \in DOMAIN PhaseResult("user_assignments").users :
          PhaseResult("user_assignments").users[u].failed_roles # <<>>

\* C2: complete_rbac_setup reports overall_success = false and names the
\* phase in failed_phases whenever a role-creation phase has a role that was
\* not created, the privileges phase has failed_roles > 0, or the hierarchy
\* phase has a failed edge; with the role phases and the hierarchy in order
\* and two failed roles in the privileges phase, failed_phases is exactly
\* <<"privileges">>.
C2_FailedPhasesReported ==
    pc = "rbac_returned" =>
        /\ \A name \in FlagPhases :
              FlagPhaseFailed(name) =>
                 setup_result.overall_success = FALSE /\ ReportedFailed(name)
        /\ PrivilegesPhaseFailed =>
              setup_result.overall_success = FALSE /\ ReportedFailed("privileges")
        /\ ( /\ Len(setup_result.phases) = 4
             /\ \A name \in FlagPhases : ~FlagPhaseFailed(name)
             /\ PhaseResult("privileges").summary.failed_roles = 2 )
           => /\ setup_result.overall_success = FALSE
              /\ "failed_phases" \in DOMAIN setup_result
              /\ setup_result["failed_phases"] = <<"privileges">>

\* Apart from the runs in which the check itself raises (a name -> bool
\* result with the key summary), every failed role-creation, privileges or
\* hierarchy phase is named in failed_phases.
FailedPhasesReportedUnlessCheckRaises ==
    (pc = "rbac_returned" /\ "error" \in DOMAIN setup_result) \/ C2_FailedPhasesReported

\* C3: when the AssignUsers phase ran and a 'grant role to user' instruction
\* was refused, complete_rbac_setup returns overall_success = false and
\* failed_phases contains user_assignments.  Runs that end in the except
\* clause are left aside: the statement is about runs that reach the check.
C3_UserFailureReported ==
    (pc = "rbac_returned" /\ "error" \notin DOMAIN setup_result /\ UserPhaseFailed) =>
        setup_result.overall_success = FALSE /\ ReportedFailed("user_assignments")

\* C4: if every instruction issued by complete_rbac_setup was accepted and
\* no unexpected failure occurred, overall_success is true and no phase is
\* reported as failed, also when a role category, the hierarchy or the user
\* list is empty.
C4_SuccessWhenNothingFailed ==
    ( /\ pc = "rbac_returned"
      /\ "error" \notin DOMAIN setup_result
      /\ \A k \in 1..Len(issued) : issued[k].ok )
    => /\ setup_result.overall_success = TRUE
       /\ "failed_phases" \notin DOMAIN setup_result

\* Rank of a phase in the order the specification fixes.
PhaseRank(phase) ==
    IF phase = "service_roles" THEN 1
    ELSE IF phase = "system_full_roles" THEN 2
    ELSE IF phase = "privileges" THEN 3
    ELSE IF phase = "hierarchy" THEN 4 ELSE 5

\* Number of instructions issued by a phase, and whether one was refused.
IssuedBy(phase) == Cardinality({k \in 1..Len(issued) : issued[k].req[1] = phase})

RefusedIn(phase) == \E k \in 1..Len(issued) : issued[k].req[1] = phase /\ ~issued[k].ok

\* The role declarations of a category, and whether all of them have a name.
RolesOf(category) == Get(rbac_config, category, <<>>)

Named(category) == \A k \in 1..Len(RolesOf(category)) : "name" \in DOMAIN RolesOf(category)[k]

\* The configured users and hierarchy edges.
ConfiguredUsers == Get(Get(rbac_config, "user_assignments", EmptyDict), "example_users", <<>>)

ConfiguredEdges ==
    LET hs == Get(rbac_config, "role_hierarchy", <<>>) IN
    UNION {{<<h, c>> : c \in 1..Len(hs[h].children)} : h \in 1..Len(hs)}

ConfiguredAssignments ==
    UNION {{<<u, r>> : r \in 1..Len(ConfiguredUsers[u].roles)} : u \in 1..Len(ConfiguredUsers)}

\* C12: the instructions of complete_rbac_setup are issued phase by phase in
\* the order service roles, system-full roles, privileges, hierarchy, user
\* assignments, and the results are recorded in that order; every phase runs
\* whatever was refused before it: in a run of a configuration without
\* malformed declarations the role phases issue one instruction per role,
\* the privileges phase is recorded, the hierarchy phase issues one
\* instruction per edge and, when user assignments are configured, the user
\* phase one per assignment.
C12_PhasesInOrder ==
    /\ \A j, k \in 1..Len(issued) :
          j < k => PhaseRank(issued[j].req[1]) <= PhaseRank(issued[k].req[1])
    /\ pc \in {"rbac_check", "rbac_returned"} =>
          \A j, k \in 1..Len(setup_result.phases) :
              j < k => PhaseRank(setup_result.phases[j].name)
                          < PhaseRank(setup_result.phases[k].name)
    /\ (pc = "rbac_returned" /\ Named("service_roles") /\ Named("system_full_roles")) =>
          /\ \A name \in {"service_roles", "system_full_roles", "privileges", "hierarchy"} :
                HasPhase(name)
          /\ IssuedBy("service_roles") = Len(RolesOf("service_roles"))
          /\ IssuedBy("system_full_roles") = Len(RolesOf("system_full_roles"))
          /\ IssuedBy("hierarchy") = Cardinality(ConfiguredEdges)
          /\ "user_assignments" \in DOMAIN rbac_config =>
                /\ HasPhase("user_assignments")
                /\ IssuedBy("user_assignments") = Cardinality(ConfiguredAssignments)

\* A returned run in which every one of the first four phases had an
\* instruction refused and the user phase still issued its instructions.
C12_Witness ==
    /\ pc = "rbac_returned"
    /\ \A name \in {"service_roles", "system_full_roles", "privileges", "hierarchy"} :
          RefusedIn(name)
    /\ IssuedBy("user_assignments") = 3
    /\ Len(setup_result.phases) = 5

\* The outcome recorded for a role name by a role-creation phase: that of
\* the last declaration with this name.
CreationOutcome(category, name) ==
    LET last == CHOOSE k \in 1..Len(RolesOf(category)) :
                    /\ RolesOf(category)[k]["name"] = name
                    /\ \A j \in (k + 1)..Len(RolesOf(category)) :
                          RolesOf(category)[j]["name"] # name
        at == CHOOSE i \in 1..Len(issued) : issued[i].req = <<category, last>>
    IN  issued[at].ok

\* C13: when a phase of complete_rbac_setup raises an unexpected failure
\* (here the KeyError of a role declaration without name), the call does
\* not go on and does not raise: it has returned a result with
\* overall_success = false and the failure description attached, in which
\* the results of the phases completed before are still present: none when
\* the service-role phase raised, the service-role outcomes when the
\* system-full-role phase raised.
C13_UnexpectedFailureCaught ==
    /\ (~Named("service_roles") /\ pc \notin {"idle", "rbac_service_roles"}) =>
          /\ pc = "rbac_returned"
          /\ setup_result.overall_success = FALSE
          /\ "error" \in DOMAIN setup_result
          /\ setup_result.phases = <<>>
    /\ ( /\ Named("service_roles") /\ ~Named("system_full_roles")
         /\ pc \notin {"idle", "rbac_service_roles", "rbac_system_full_roles"} ) =>
          /\ pc = "rbac_returned"
          /\ setup_result.overall_success = FALSE
          /\ "error" \in DOMAIN setup_result
          /\ Len(setup_result.phases) = 1
          /\ setup_result.phases[1].name = "service_roles"
          /\ DOMAIN setup_result.phases[1].result =
                {RolesOf("service_roles")[k]["name"] : k \in 1..Len(RolesOf("service_roles"))}
          /\ \A name \in DOMAIN setup_result.phases[1].result :
                setup_result.phases[1].result[name] = CreationOutcome("service_roles", name)

\* The system-full-role phase raised after the service-role phase had
\* recorded a role that could not be created.
C13_Witness ==
    /\ pc = "rbac_returned"
    /\ "error" \in DOMAIN setup_result
    /\ Len(setup_result.phases) = 1
    /\ \E name \in DOMAIN setup_result.phases[1].result : ~setup_result.phases[1].result[name]

\* The instruction of a configured (user, role) pair and its places in the
\* log of the user phase.
UserGrant(a) ==
    "GRANT ROLE " \o ConfiguredUsers[a[1]].roles[a[2]]
    \o " TO USER " \o ConfiguredUsers[a[1]].username

UserGrantPlaces(a) ==
    {k \in 1..Len(issued) : issued[k].req[1] = "user_assignments" /\ issued[k].sql = UserGrant(a)}

UserGrantAccepted(a) == \A k \in UserGrantPlaces(a) : issued[k].ok

\* C23: the AssignUsers phase runs only if the user-assignment
\* configuration is present; when it has run, one 'grant role to user'
\* instruction was issued for each configured (user, role) pair, whatever was
\* refused before it; a user's result has success = true iff all grants of
\* that user were accepted; and total_assignments = successful_assignments
\* + failed_assignments = number of (user, role) pairs.
C23_UserAssignments ==
    pc \in {"rbac_check", "rbac_returned"} =>
        /\ HasPhase("hierarchy") =>
              (HasPhase("user_assignments") <=> "user_assignments" \in DOMAIN rbac_config)
        /\ "user_assignments" \notin DOMAIN rbac_config => IssuedBy("user_assignments") = 0
        /\ HasPhase("user_assignments") =>
              LET res == PhaseResult("user_assignments") IN
              /\ \A a \in ConfiguredAssignments : Cardinality(UserGrantPlaces(a)) = 1
              /\ IssuedBy("user_assignments") = Cardinality(ConfiguredAssignments)
              /\ \A u \in 1..Len(ConfiguredUsers) :
                    res.users[ConfiguredUsers[u].username].success
                       <=> \A a \in ConfiguredAssignments : a[1] = u => UserGrantAccepted(a)
              /\ res.summary.total_assignments = Cardinality(ConfiguredAssignments)
              /\ res.summary.total_assignments =
                    res.summary.successful_assignments + res.summary.failed_assignments
              /\ res.summary.successful_assignments =
                    Cardinality({a \in ConfiguredAssignments : UserGrantAccepted(a)})

\* The user phase ran; the first grant of the first user was refused, her
\* second grant and the grant of the second user were accepted.
C23_Witness ==
    /\ pc = "rbac_returned"
    /\ HasPhase("user_assignments")
    /\ Cardinality(ConfiguredAssignments) = 3
    /\ ~UserGrantAccepted(<<1, 1>>)
    /\ UserGrantAccepted(<<1, 2>>)
    /\ UserGrantAccepted(<<2, 1>>)
    /\ PhaseResult("user_assignments").users["BOB"].success

-----------------------------------------------------------------------------
(* Properties of _substitute_variables *)

\* The pieces of a pattern with every placeholder piece exchanged for the
\* target database, written one after the other.
Resolved(parts, target_database) ==
    Concat([i \in 1..Len(parts) |->
               IF parts[i] = Placeholder THEN target_database ELSE parts[i]])

\* C15: _substitute_variables returns a list of the same length and order
\* in which every occurrence of ${TARGET_DATABASE} in every pattern is
\* replaced by target_database and all other text is unchanged: however a
\* pattern is put together from placeholders and other pieces, the result is
\* the same pieces with target_database in the place of each placeholder; a
\* pattern without placeholder is returned unchanged.
C15_SubstitutionReplacesEveryPlaceholder ==
    call.fn = "_substitute_variables" =>
        LET objects == call.args[1]
            target_database == call.args[2]
        IN  /\ Len(call.ret) = Len(objects)
            /\ \A k \in 1..Len(objects) :
                  /\ \A parts \in SeqUpTo(PatternParts, MaxParts) :
                        Concat(parts) = objects[k] =>
                            call.ret[k] = Resolved(parts, target_database)
                  /\ ~Occurs("${TARGET_DATABASE}", objects[k]) => call.ret[k] = objects[k]

\* The example of the specification, as the second pattern of a list whose
\* first pattern has no placeholder.
C15_Witness ==
    /\ call.fn = "_substitute_variables"
    /\ call.args = << <<"WH_", "${TARGET_DATABASE}.PUBLIC.*">>, "DEV" >>
    /\ call.ret = <<"WH_", "DEV.PUBLIC.*">>

-----------------------------------------------------------------------------
(* Properties of apply_role_privileges *)

\* The roles apply_role_privileges works on, in order.
AppliedRoles ==
    LET role_types == Get(rbac_args, "role_types", <<"service_roles", "system_full_roles">>)
        list[t \in 0..Len(role_types)] ==
            IF t = 0 THEN <<>> ELSE list[t - 1] \o Get(rbac_config, role_types[t], <<>>)
    IN  list[Len(role_types)]

\* No two of them have the same name.
DistinctRoleNames ==
    \A j, k \in 1..Len(AppliedRoles) : AppliedRoles[j]["name"] = AppliedRoles[k]["name"] => j = k

\* The configured grants of a role: one per block, entry and object pattern.
ConfiguredGrants(role_config) ==
    LET privileges == Get(role_config, "privileges", EmptyDict) IN
    UNION { UNION { { [block |-> b, entry |-> k, object |-> o]
                      : o \in 1..Len(privileges[PrivilegeBlocks[b].key][k]["objects"]) }
                    : k \in 1..Len(Get(privileges, PrivilegeBlocks[b].key, <<>>)) }
            : b \in 1..Len(PrivilegeBlocks) }

\* The privilege and the pattern of a configured grant, and the pattern
\* after resolution of the placeholder (warehouse patterns stay as they are).
GrantEntry(role_config, g) == role_config["privileges"][PrivilegeBlocks[g.block].key][g.entry]

GrantPattern(role_config, g) == GrantEntry(role_config, g)["objects"][g.object]

ResolvedPattern(role_config, g) ==
    IF PrivilegeBlocks[g.block].substitute
    THEN Replace(GrantPattern(role_config, g), Placeholder, rbac_args.target_database)
    ELSE GrantPattern(role_config, g)

\* The GRANT instruction of a configured grant.
GrantInstruction(role_config, g) ==
    LET privilege == GrantEntry(role_config, g)["privilege"]
        head == IF Upper(privilege) = "ALL" THEN "GRANT ALL PRIVILEGES" ELSE "GRANT " \o privilege
    IN  head \o " ON " \o PrivilegeBlocks[g.block].object_type \o " "
        \o ResolvedPattern(role_config, g) \o " TO ROLE " \o role_config["name"]

\* Places of the log where the instruction of a configured grant stands.
IssuedAt(role_config, g) ==
    {k \in 1..Len(issued) : issued[k].sql = GrantInstruction(role_config, g)}

GrantRefused(role_config, g) == \E k \in IssuedAt(role_config, g) : ~issued[k].ok

\* The grant is listed in a list of privilege_info records of the result.
ListedIn(list, role_config, g) ==
    \E k \in 1..Len(list) :
        /\ list[k].type = PrivilegeBlocks[g.block].type
        /\ list[k].privilege = GrantEntry(role_config, g)["privilege"]
        /\ \E o \in 1..Len(list[k].objects) : list[k].objects[o] = GrantPattern(role_config, g)

\* C5: the result of a role has success = true iff every grant attempted for
\* the role was accepted; when exactly one grant (one privilege and object
\* pattern) of the role is refused, success is false, only that grant is
\* recorded as failed and every other grant of the role as applied.  Stated
\* for configurations whose role names are distinct.
C5_RoleResultPerGrant ==
    (pc = "privileges_returned" /\ DistinctRoleNames) =>
        \A r \in 1..Len(AppliedRoles) :
            LET role_config == AppliedRoles[r]
                result == privileges_result.roles[role_config["name"]]
                grants == ConfiguredGrants(role_config)
                refused == {g \in grants : GrantRefused(role_config, g)}
            IN  /\ result.success <=> refused = {}
                /\ Cardinality(refused) = 1 =>
                      /\ result.success = FALSE
                      /\ \A g \in grants :
                            /\ ListedIn(result.failed_privileges, role_config, g)
                                  <=> g \in refused
                            /\ g \notin refused
                                  => ListedIn(result.applied_privileges, role_config, g)

\* C6: in the privileges phase every configured (privilege, resolved object
\* pattern) pair of every role is issued as its own GRANT exactly once,
\* whether or not an earlier grant of the role was refused.  Stated for
\* configurations whose role names are distinct.
C6_EveryGrantIssuedOnce ==
    (pc = "privileges_returned" /\ DistinctRoleNames) =>
        \A r \in 1..Len(AppliedRoles) :
            \A g \in ConfiguredGrants(AppliedRoles[r]) :
                Cardinality(IssuedAt(AppliedRoles[r], g)) = 1

\* Place of an object type in the order of the role's declaration.
DeclaredRank(role_config, g) ==
    CHOOSE k \in 1..Len(DeclaredOrder(role_config)) :
        DeclaredOrder(role_config)[k] = PrivilegeBlocks[g.block].key

\* Place of an object type in the order databases, schemas, tables, views,
\* warehouses.
TypeRank(g) ==
    LET key == PrivilegeBlocks[g.block].key IN
    IF key = "databases" THEN 1 ELSE IF key = "schemas" THEN 2
    ELSE IF key = "tables" THEN 3 ELSE IF key = "views" THEN 4 ELSE 5

\* Within one object type: an earlier entry, or an earlier pattern of the
\* same entry.
EarlierInType(g1, g2) ==
    /\ g1.block = g2.block
    /\ g1.entry < g2.entry \/ (g1.entry = g2.entry /\ g1.object < g2.object)

\* Every issued instruction of grant g1 stands before every one of g2.
IssuedBefore(role_config, g1, g2) ==
    \A j \in IssuedAt(role_config, g1), k \in IssuedAt(role_config, g2) : j < k

UsedInInstruction(object_type, object, role_name) ==
    \E k \in 1..Len(issued) :
        /\ issued[k].req[1] = "privileges"
        /\ Occurs(" ON " \o object_type \o " " \o object \o " TO ROLE " \o role_name,
                  issued[k].sql)

\* The object type of the GRANT of a recorded privilege_info.
RecordedObjectType(info) ==
    IF info.type = "database" THEN "DATABASE" ELSE IF info.type = "schema" THEN "SCHEMA"
    ELSE IF info.type = "table" THEN "TABLE" ELSE IF info.type = "view" THEN "VIEW"
    ELSE "WAREHOUSE"

\* C24: the grant outcomes recorded for a role identify each grant by its
\* object pattern after substitution of the placeholder: every pattern in
\* the applied list is the object name of a grant instruction issued for the
\* role, and so is the first pattern of every entry of the failed list (the
\* one pattern of a failed entry that is certain to have been attempted).
C24_RecordedPatternIsUsedName ==
    (pc = "privileges_returned" /\ DistinctRoleNames) =>
        \A r \in 1..Len(AppliedRoles) :
            LET role_name == AppliedRoles[r]["name"]
                result == privileges_result.roles[role_name]
            IN  /\ \A k \in 1..Len(result.applied_privileges) :
                      \A o \in 1..Len(result.applied_privileges[k].objects) :
                          UsedInInstruction(RecordedObjectType(result.applied_privileges[k]),
                                            result.applied_privileges[k].objects[o], role_name)
                /\ \A k \in 1..Len(result.failed_privileges) :
                      Len(result.failed_privileges[k].objects) > 0 =>
                          UsedInInstruction(RecordedObjectType(result.failed_privileges[k]),
                                            result.failed_privileges[k].objects[1], role_name)

\* The grants a configuration declares, by role, key of the privileges dict,
\* entry and pattern.
DeclaredGrants ==
    UNION { UNION { UNION { { [role |-> r, key |-> key, entry |-> e, object |-> o]
                              : o \in 1..Len(AppliedRoles[r]["privileges"][key][e]["objects"]) }
                            : e \in 1..Len(AppliedRoles[r]["privileges"][key]) }
                    : key \in DOMAIN Get(AppliedRoles[r], "privileges", EmptyDict) }
            : r \in 1..Len(AppliedRoles) }

\* The instruction the specification gives a declared grant: the pattern of
\* a warehouse grant verbatim, every other pattern with the placeholder
\* replaced by the target database.
SpecifiedGrant(d) ==
    LET entry == AppliedRoles[d.role]["privileges"][d.key][d.entry]
        pattern == entry["objects"][d.object]
        object_type == IF d.key = "databases" THEN "DATABASE"
                       ELSE IF d.key = "schemas" THEN "SCHEMA"
                       ELSE IF d.key = "tables" THEN "TABLE"
                       ELSE IF d.key = "views" THEN "VIEW" ELSE "WAREHOUSE"
        object == IF d.key = "warehouses" THEN pattern
                  ELSE Replace(pattern, "${TARGET_DATABASE}", rbac_args.target_database)
        head == IF Upper(entry["privilege"]) = "ALL" THEN "GRANT ALL PRIVILEGES"
                ELSE "GRANT " \o entry["privilege"]
    IN  head \o " ON " \o object_type \o " " \o object
        \o " TO ROLE " \o AppliedRoles[d.role]["name"]

\* C26: object patterns of warehouse privileges are never substituted and
\* those of database, schema, table and view privileges always are: every
\* grant instruction issued is the instruction of a declared grant with a
\* warehouse pattern verbatim and any other pattern substituted, and the
\* instruction of the first pattern of every declared entry is issued.
C26_WarehousePatternsVerbatim ==
    pc = "privileges_returned" =>
        /\ \A k \in 1..Len(issued) :
              \E d \in DeclaredGrants : issued[k].sql = SpecifiedGrant(d)
        /\ \A d \in DeclaredGrants :
              d.object = 1 => \E k \in 1..Len(issued) : issued[k].sql = SpecifiedGrant(d)

\* A warehouse grant whose pattern contains the placeholder was issued with
\* the pattern as configured, next to a schema grant with the placeholder
\* replaced.
C26_Witness ==
    /\ pc = "privileges_returned"
    /\ \E k \in 1..Len(issued) :
          issued[k].sql = "GRANT USAGE ON WAREHOUSE WH_${TARGET_DATABASE} TO ROLE SR_RW"
    /\ \E k \in 1..Len(issued) :
          issued[k].sql = "GRANT ALL PRIVILEGES ON SCHEMA DEV.PUBLIC TO ROLE SR_RW"

\* C28: the summary of apply_role_privileges agrees with its roles mapping:
\* total_roles is successful_roles plus failed_roles and the number of
\* entries of the mapping, and successful_roles and failed_roles are the
\* numbers of recorded role results with success true and false, also when
\* a role name stands in both the service and the system-full category.
C28_SummaryMatchesRoles ==
    pc = "privileges_returned" =>
        LET summary == privileges_result.summary
            roles == privileges_result.roles
        IN  /\ summary.total_roles = summary.successful_roles + summary.failed_roles
            /\ summary.total_roles = Cardinality(DOMAIN roles)
            /\ summary.successful_roles = Cardinality({n \in DOMAIN roles : roles[n].success})
            /\ summary.failed_roles = Cardinality({n \in DOMAIN roles : ~roles[n].success})

\* The role categories a call asked privileges for, and the names of the
\* roles declared in them.
RequestedCategories ==
    IF "role_types" \in DOMAIN rbac_args
    THEN {rbac_args.role_types[t] : t \in 1..Len(rbac_args.role_types)}
    ELSE {"service_roles", "system_full_roles"}

RequestedRoles == UNION {{RolesOf(c)[k] : k \in 1..Len(RolesOf(c))} : c \in RequestedCategories}

\* The instruction at place i is a grant of the privileges phase to the role.
PrivilegeGrantTo(i, name) ==
    /\ issued[i].req[1] = "privileges"
    /\ StartsWith(issued[i].sql, "GRANT ")
    /\ LET tail == " TO ROLE " \o name
           n == Len(issued[i].sql)
       IN  /\ n >= Len(tail)
           /\ SubSeq(issued[i].sql, n - Len(tail) + 1, n) = tail

-----------------------------------------------------------------------------
(* Properties of audit_rbac_configuration *)

\* The names of the roles the warehouse listed to the audit, the number of
\* rows of that listing, and the listed roles whose grant listing was refused.
ListedNames ==
    IF call.log[1].ok THEN {call.log[1].rows[k][2] : k \in 1..Len(call.log[1].rows)} ELSE {}

ListedCount == IF call.log[1].ok THEN Len(call.log[1].rows) ELSE 0

GrantsAsked(name) ==
    {i \in 2..Len(call.log) : call.log[i].sql = "SHOW GRANTS TO ROLE " \o name}

Unreadable == {name \in ListedNames : \E i \in GrantsAsked(name) : ~call.log[i].ok}

\* C21: audit_rbac_configuration degrades gracefully: whatever roles are
\* listed and whichever of their grant listings fail, the call does not
\* raise, the grants of every listed role are asked for, total_roles is the
\* number of listed roles, every listed role is in the roles mapping, no
\* role whose grant listing failed is in the grants mapping, and
\* roles_with_grants is at most the number of roles whose listing succeeded.
C21_AuditDegradesGracefully ==
    call.fn = "audit_rbac_configuration" =>
        /\ ~call.raised
        /\ call.log[1].sql = "SHOW ROLES"
        /\ call.log[1].ok => "error" \notin DOMAIN call.ret
        /\ \A name \in ListedNames : Cardinality(GrantsAsked(name)) = 1
        /\ call.ret.summary.total_roles = ListedCount
        /\ ListedNames \subseteq DOMAIN call.ret.roles
        /\ \A name \in Unreadable : name \notin DOMAIN call.ret.grants
        /\ call.ret.summary.roles_with_grants <= Cardinality(ListedNames \ Unreadable)

\* Five roles are listed, the grant listings of two of them fail and one of
\* the others has no grants: total_roles = 5, roles_with_grants = 2, and the
\* two unreadable roles are in the roles mapping only.
C21_Witness ==
    /\ call.fn = "audit_rbac_configuration"
    /\ ListedCount = 5
    /\ Unreadable = {"ROLE_2", "ROLE_5"}
    /\ call.ret.summary.total_roles = 5
    /\ call.ret.summary.roles_with_grants = 2
    /\ DOMAIN call.ret.grants = {"ROLE_1", "ROLE_4"}
    /\ {"ROLE_2", "ROLE_5"} \subseteq DOMAIN call.ret.roles

-----------------------------------------------------------------------------
(* Properties of validate_clone_operation *)

\* The warehouse answered the clone history with a record source -> target.
LineageFound ==
    /\ call.log[3].ok
    /\ \E k \in 1..Len(call.log[3].rows) :
          /\ call.log[3].rows[k][1] = call.args[1]
          /\ call.log[3].rows[k][2] = call.args[2]

\* C22: validate_clone_operation returns SUCCESS exactly when the source is
\* describable, the target is describable and a lineage record from the
\* source to the target is found, and FAILED otherwise; the three checks
\* are independent, all three queries being sent whichever of them fail; a
\* refused query leaves its flag false and is not propagated; without a
\* matching lineage record the status is FAILED even when both objects are
\* describable.
C22_ValidationStatus ==
    call.fn = "validate_clone_operation" =>
        /\ ~call.raised
        /\ "error" \notin DOMAIN call.ret
        /\ Len(call.log) = 3
        /\ call.log[1].sql = "DESCRIBE " \o call.args[1]
        /\ call.log[2].sql = "DESCRIBE " \o call.args[2]
        /\ StartsWith(call.log[3].sql, "SHOW CLONES")
        /\ call.ret.checks.source_accessible = call.log[1].ok
        /\ call.ret.checks.target_exists = call.log[2].ok
        /\ call.ret.checks.clone_relationship = LineageFound
        /\ call.ret.overall_status \in {"SUCCESS", "FAILED"}
        /\ call.ret.overall_status = "SUCCESS" <=>
              (call.log[1].ok /\ call.log[2].ok /\ LineageFound)

\* validate_clone_operation('PROD.DB', 'DEV.DB'): both objects are
\* describable and the clone history is answered, but with no record from
\* PROD.DB to DEV.DB; the status is FAILED with both describe flags set.
C22_Witness ==
    /\ call.fn = "validate_clone_operation"
    /\ call.args = <<"PROD.DB", "DEV.DB">>
    /\ \A k \in 1..3 : call.log[k].ok
    /\ Len(call.log[3].rows) > 0
    /\ ~LineageFound
    /\ call.ret.checks.source_accessible
    /\ call.ret.checks.target_exists
    /\ call.ret.overall_status = "FAILED"

====
